---- MODULE Spec2Model ----
(***************************************************************************)
(* Vulkano: FrameSynchronizer (frames in flight), SwapchainManager         *)
(* (swapchain lifecycle) and the Testbed frame loop, modelled as a state   *)
(* machine over the objects' fields and the device-side state the Vulkan   *)
(* calls act on (live handles, fence states, outstanding submissions).     *)
(***************************************************************************)
EXTENDS Integers, Sequences, FiniteSets, TLC

VARIABLES
    sync,       \* FrameSynchronizer: mContext, mFrames, mCurrentFrameIndex
    swap,       \* SwapchainManager: its fields and mImpl->vkbSwapchain
    dev,        \* device side: live handles, signaled fences, outstanding submissions, recorded buffers
    log,        \* the device calls made by the last operation, in order
    ret,        \* the last operation: name, arguments, Result
    fault,      \* the first undefined behaviour executed so far ("none" if none)
    halted,     \* the process has ended (crash, or an exception nobody catches)
    endCalls,   \* EndFrame calls since the last successful FrameSynchronizer::Initialize
    caps,       \* what the window surface supports: formats and present modes
    pc,         \* who drives: "sync"/"swap"/"context" = a client calling one component freely; else the Testbed position
    frame,      \* Testbed locals: imageIndex of DrawFrame, frames drawn so far
    ctx         \* VulkanContext: its handles, queues and mImpl's vk-bootstrap objects

vars == <<sync, swap, dev, log, ret, fault, halted, endCalls, caps, pc, frame, ctx>>

----------------------------------------------------------------------------
\* Bounds of the model.

\* most handles alive at once
MaxHandles == 20
\* most handles the program may have lost (live, stored nowhere) when it creates more
MaxLeaked == 0
\* EndFrame calls counted after one Initialize
MaxEndCalls == 10
\* largest index a zero-slot EndFrame may leave behind
MaxStaleIndex == 1
\* frames the Testbed loop draws
MaxLoopFrames == 6

\* Most submissions outstanding beside the swapchain manager.
MaxOutstanding == 1

\* Program constants.
VK_NULL_HANDLE == 0
MinFramesInFlight == 1
MaxFramesInFlight == 4
\* timeouts: the default UINT64_MAX (wait without limit) or a finite number of nanoseconds
Timeouts == {"UINT64_MAX", "finite"}

SeqToSet(s) == {s[i] : i \in 1..Len(s)}

----------------------------------------------------------------------------
\* Device-side state threaded through one operation.
\*   live      handles of the objects created and not destroyed
\*   owned     <<parent, child>>: the child is freed with its parent
\*   signaled  fences in the signaled state
\*   pending   submissions whose GPU work has not completed (each names its fence)
\*   recorded  command buffers holding recorded commands
\*   presents  queued presents whose semaphore wait has not been consumed yet, in
\*             the order they were queued (each names its semaphore and its image)
\*   taken     handles that are live, or were live earlier in the running operation
\*   log, fault as the variables of the same name

FrameContextNull ==
    [inFlightFence |-> VK_NULL_HANDLE, imageAvailableSemaphore |-> VK_NULL_HANDLE,
     renderFinishedSemaphore |-> VK_NULL_HANDLE, commandPool |-> VK_NULL_HANDLE,
     commandBuffer |-> VK_NULL_HANDLE]

FrameHandles(f) ==
    {f.inFlightFence, f.imageAvailableSemaphore, f.renderFinishedSemaphore,
     f.commandPool, f.commandBuffer}

Stored ==
    (UNION {FrameHandles(sync.mFrames[i]) : i \in 1..Len(sync.mFrames)}
       \cup {swap.mSwapchain, swap.vkbSwapchain}
       \cup SeqToSet(swap.mImages) \cup SeqToSet(swap.mImageViews)) \ {VK_NULL_HANDLE}

Work ==
    [live |-> dev.live, owned |-> dev.owned, signaled |-> dev.signaled,
     pending |-> dev.pending, recorded |-> dev.recorded, presents |-> dev.presents,
     taken |-> dev.live,
     log |-> <<>>, fault |-> fault]

RECURSIVE FirstFree(_, _)
FirstFree(taken, h) == IF h \notin taken THEN h ELSE FirstFree(taken, h + 1)

\* The handle the next creation returns: one that names no live object and that the
\* program stores nowhere.
NewHandle(w) == FirstFree(w.taken, 1)

\* One device call, its handle and whether it returned VK_SUCCESS, appended to the log.
CallRes(w, fn, h, ok) == [w EXCEPT !.log = Append(@, [fn |-> fn, h |-> h, ok |-> ok])]

Call(w, fn, h) == CallRes(w, fn, h, TRUE)

\* vkCreate*/vkAllocate*: a new object with the handle NewHandle(w), owned by
\* parent unless that is null.
CreateObject(w, fn, parent, isSignaled) ==
    LET h == NewHandle(w) IN
    [Call(w, fn, h) EXCEPT
        !.live = @ \cup {h},
        !.owned = IF parent = VK_NULL_HANDLE THEN @ ELSE @ \cup {<<parent, h>>},
        !.signaled = IF isSignaled THEN @ \cup {h} ELSE @,
        !.taken = @ \cup {h}]

Children(w, h) == {p[2] : p \in {q \in w.owned : q[1] = h}}

\* vkDestroy*: the object and what it owns are gone; destroying a handle that is
\* not a live object is undefined.
DestroyObject(w, fn, h) ==
    LET gone == {h} \cup Children(w, h) IN
    IF h \in w.live
    THEN [Call(w, fn, h) EXCEPT
            !.live = @ \ gone,
            !.owned = {q \in @ : q[1] # h},
            !.signaled = @ \ gone,
            !.recorded = @ \ gone]
    ELSE [Call(w, fn, h) EXCEPT
            !.fault = IF @ = "none" THEN "invalid_destroy" ELSE @]

\* vkDeviceWaitIdle: returns once every outstanding submission has completed.
\* The log shows each submission completing, then the call returning.
Completions(w) ==
    [i \in 1..Len(w.pending) |-> [fn |-> "completed", h |-> w.pending[i].fence, ok |-> TRUE]]

DeviceWaitIdle(w) ==
    [Call([w EXCEPT !.log = @ \o Completions(w)], "vkDeviceWaitIdle", VK_NULL_HANDLE) EXCEPT
        !.signaled = @ \cup ({w.pending[i].fence : i \in 1..Len(w.pending)} \cap w.live),
        !.pending = <<>>,
        !.presents = <<>>]

\* A WaitIdle on a context that has no device: nothing is waited for.
WaitIdleNoDevice(w) == w

\* VulkanContext::WaitIdle through a stored context pointer.
WaitIdle(w) == DeviceWaitIdle(w)

Commit(w) ==
    /\ dev' = [live |-> w.live, owned |-> w.owned, signaled |-> w.signaled,
               pending |-> w.pending, recorded |-> w.recorded, presents |-> w.presents]
    /\ log' = w.log
    /\ fault' = w.fault

Ok(op, n) == [op |-> op, ok |-> TRUE, err |-> "", n |-> n, val |-> 0]
Unexpected(op, n, msg) == [op |-> op, ok |-> FALSE, err |-> msg, n |-> n, val |-> 0]

----------------------------------------------------------------------------
\* FrameSynchronizer

\* IsInitialized(): mContext != nullptr && !mFrames.empty()
IsInitialized(s) == s.mContext # "null" /\ Len(s.mFrames) > 0

GetFramesInFlight(s) == Len(s.mFrames)

\* mFrames[mCurrentFrameIndex] (0-based in the code)
GetCurrentFrame(s) == s.mFrames[s.mCurrentFrameIndex + 1]

GetCurrentFence(s) == GetCurrentFrame(s).inFlightFence

GetCurrentImageAvailableSemaphore(s) == GetCurrentFrame(s).imageAvailableSemaphore

\* A render-finished getter that always answers with the first slot's semaphore.
GetFirstRenderFinishedSemaphore(s) == s.mFrames[1].renderFinishedSemaphore

GetCurrentRenderFinishedSemaphore(s) == GetCurrentFrame(s).renderFinishedSemaphore

GetCurrentCommandBuffer(s) == GetCurrentFrame(s).commandBuffer

\* The creation steps of one slot, in the code's order; failStep = 0: none fails.
FailSteps == 0..5

StepField ==
    <<"inFlightFence", "imageAvailableSemaphore", "renderFinishedSemaphore",
      "commandPool", "commandBuffer">>

StepCreate ==
    <<"vkCreateFence", "vkCreateSemaphore", "vkCreateSemaphore", "vkCreateCommandPool",
      "vkAllocateCommandBuffers">>

StepDestroy ==
    <<"vkDestroyFence", "vkDestroySemaphore", "vkDestroySemaphore", "vkDestroyCommandPool">>

StepError ==
    <<"Failed to create fence", "Failed to create image available semaphore",
      "Failed to create render finished semaphore", "Failed to create command pool",
      "Failed to allocate command buffer">>

\* A failing step that returns without cleaning up after the earlier steps.
KeepCreated(w, fr, j, last) == w

\* The cleanup a failing step of CreateFrameContext runs: the handles of steps
\* j..last, destroyed in the order the code lists them (fence first).
RECURSIVE DestroyCreated(_, _, _, _)
DestroyCreated(w, fr, j, last) ==
    IF j > last THEN w
    ELSE DestroyCreated(DestroyObject(w, StepDestroy[j], fr[StepField[j]]), fr, j + 1, last)

\* A CreateFrameContext whose fence is created unsignaled.
RECURSIVE CreateStepsUnsignaled(_, _, _, _)
CreateStepsUnsignaled(w, fr, k, failStep) ==
    IF k > 5 THEN [w |-> w, frame |-> fr, ok |-> TRUE, err |-> ""]
    ELSE IF k = failStep
    THEN [w |-> DestroyCreated(CallRes(w, StepCreate[k], VK_NULL_HANDLE, FALSE), fr, 1, k - 1),
          frame |-> fr, ok |-> FALSE, err |-> StepError[k]]
    ELSE CreateStepsUnsignaled(
            CreateObject(w, StepCreate[k],
                         IF k = 5 THEN fr.commandPool ELSE VK_NULL_HANDLE, FALSE),
            [fr EXCEPT ![StepField[k]] = NewHandle(w)], k + 1, failStep)

\* CreateFrameContext(frame) from step k on: each step writes its handle into the
\* frame (the fence is created signaled, the buffer is allocated from the pool); a
\* failing step destroys what the earlier steps created and the frame keeps those
\* handles.
RECURSIVE CreateSteps(_, _, _, _)
CreateSteps(w, fr, k, failStep) ==
    IF k > 5 THEN [w |-> w, frame |-> fr, ok |-> TRUE, err |-> ""]
    ELSE IF k = failStep
    THEN [w |-> DestroyCreated(CallRes(w, StepCreate[k], VK_NULL_HANDLE, FALSE), fr, 1, k - 1),
          frame |-> fr, ok |-> FALSE, err |-> StepError[k]]
    ELSE CreateSteps(
            CreateObject(w, StepCreate[k],
                         IF k = 5 THEN fr.commandPool ELSE VK_NULL_HANDLE, k = 1),
            [fr EXCEPT ![StepField[k]] = NewHandle(w)], k + 1, failStep)

CreateFrameContext(w, fr, failStep) == CreateSteps(w, fr, 1, failStep)

\* DestroyFrameContext(frame): pool (and its buffer), render-finished, image-available,
\* fence; each only if the handle is not null, and nulled afterwards.
DestroyFrameContext(s, w, fr) ==
    IF s.mContext = "null" THEN [w |-> w, frame |-> fr]
    ELSE
    LET w1 == IF fr.commandPool # VK_NULL_HANDLE
              THEN DestroyObject(w, "vkDestroyCommandPool", fr.commandPool) ELSE w
        f1 == IF fr.commandPool # VK_NULL_HANDLE
              THEN [fr EXCEPT !.commandPool = VK_NULL_HANDLE, !.commandBuffer = VK_NULL_HANDLE]
              ELSE fr
        w2 == IF f1.renderFinishedSemaphore # VK_NULL_HANDLE
              THEN DestroyObject(w1, "vkDestroySemaphore", f1.renderFinishedSemaphore) ELSE w1
        f2 == [f1 EXCEPT !.renderFinishedSemaphore = VK_NULL_HANDLE]
        w3 == IF f2.imageAvailableSemaphore # VK_NULL_HANDLE
              THEN DestroyObject(w2, "vkDestroySemaphore", f2.imageAvailableSemaphore) ELSE w2
        f3 == [f2 EXCEPT !.imageAvailableSemaphore = VK_NULL_HANDLE]
        w4 == IF f3.inFlightFence # VK_NULL_HANDLE
              THEN DestroyObject(w3, "vkDestroyFence", f3.inFlightFence) ELSE w3
        f4 == [f3 EXCEPT !.inFlightFence = VK_NULL_HANDLE]
    IN [w |-> w4, frame |-> f4]

\* mFrames.resize(n): keeps the first n elements, appends default-constructed ones.
Resize(frames, n) ==
    IF n <= Len(frames) THEN SubSeq(frames, 1, n)
    ELSE frames \o [k \in 1..(n - Len(frames)) |-> FrameContextNull]

\* "Cleanup already created frames": DestroyFrameContext(mFrames[j]) for j < i.
RECURSIVE DestroyFrames(_, _, _, _, _)
DestroyFrames(s, w, frames, j, i) ==
    IF j >= i THEN [w |-> w, frames |-> frames]
    ELSE LET r == DestroyFrameContext(s, w, frames[j + 1])
         IN DestroyFrames(s, r.w, [frames EXCEPT ![j + 1] = r.frame], j + 1, i)

\* The creation loop of Initialize from slot i on; slot failSlot fails at failStep.
RECURSIVE CreateFrames(_, _, _, _, _, _, _)
CreateFrames(s, w, frames, i, n, failSlot, failStep) ==
    IF i >= n THEN [w |-> w, frames |-> frames, ok |-> TRUE, err |-> ""]
    ELSE LET r == CreateFrameContext(w, frames[i + 1], IF i = failSlot THEN failStep ELSE 0)
             fs == [frames EXCEPT ![i + 1] = r.frame]
         IN IF ~r.ok
            THEN [w |-> DestroyFrames(s, r.w, fs, 0, i).w, frames |-> <<>>,
                  ok |-> FALSE, err |-> r.err]
            ELSE CreateFrames(s, r.w, fs, i + 1, n, failSlot, failStep)

Contexts == {"null", "uninit", "ctx"}

\* context && context->IsInitialized()
ContextOk(context) == context = "ctx"

\* An Initialize whose range check lets a count of zero through.
InitializeFromZero(s, w, context, framesInFlight, failSlot, failStep) ==
    IF ~ContextOk(context)
    THEN [s |-> s, w |-> w, ok |-> FALSE, err |-> "Invalid or uninitialized context"]
    ELSE IF framesInFlight < 0 \/ framesInFlight > MaxFramesInFlight
    THEN [s |-> s, w |-> w, ok |-> FALSE, err |-> "Frames in flight must be between 1 and 4"]
    ELSE
    LET s1 == [s EXCEPT !.mContext = context]
        r == CreateFrames(s1, w, Resize(s.mFrames, framesInFlight), 0, framesInFlight,
                          failSlot, failStep)
    IN IF ~r.ok
       THEN [s |-> [s1 EXCEPT !.mFrames = <<>>], w |-> r.w, ok |-> FALSE, err |-> r.err]
       ELSE [s |-> [s1 EXCEPT !.mFrames = r.frames, !.mCurrentFrameIndex = 0],
             w |-> r.w, ok |-> TRUE, err |-> ""]

\* An Initialize that leaves the frame index where the previous use left it.
InitializeKeepsIndex(s, w, context, framesInFlight, failSlot, failStep) ==
    IF ~ContextOk(context)
    THEN [s |-> s, w |-> w, ok |-> FALSE, err |-> "Invalid or uninitialized context"]
    ELSE IF framesInFlight < MinFramesInFlight \/ framesInFlight > MaxFramesInFlight
    THEN [s |-> s, w |-> w, ok |-> FALSE, err |-> "Frames in flight must be between 1 and 4"]
    ELSE
    LET s1 == [s EXCEPT !.mContext = context]
        r == CreateFrames(s1, w, Resize(s.mFrames, framesInFlight), 0, framesInFlight,
                          failSlot, failStep)
    IN IF ~r.ok
       THEN [s |-> [s1 EXCEPT !.mFrames = <<>>], w |-> r.w, ok |-> FALSE, err |-> r.err]
       ELSE [s |-> [s1 EXCEPT !.mFrames = r.frames], w |-> r.w, ok |-> TRUE, err |-> ""]

\* FrameSynchronizer::Initialize(context, framesInFlight): the new synchronizer,
\* the device state and the Result.
Initialize(s, w, context, framesInFlight, failSlot, failStep) ==
    IF ~ContextOk(context)
    THEN [s |-> s, w |-> w, ok |-> FALSE, err |-> "Invalid or uninitialized context"]
    ELSE IF framesInFlight < MinFramesInFlight \/ framesInFlight > MaxFramesInFlight
    THEN [s |-> s, w |-> w, ok |-> FALSE, err |-> "Frames in flight must be between 1 and 4"]
    ELSE
    LET s1 == [s EXCEPT !.mContext = context]
        r == CreateFrames(s1, w, Resize(s.mFrames, framesInFlight), 0, framesInFlight,
                          failSlot, failStep)
    IN IF ~r.ok
       THEN [s |-> [s1 EXCEPT !.mFrames = <<>>], w |-> r.w, ok |-> FALSE, err |-> r.err]
       ELSE [s |-> [s1 EXCEPT !.mFrames = r.frames, !.mCurrentFrameIndex = 0],
             w |-> r.w, ok |-> TRUE, err |-> ""]

\* A Shutdown that destroys the slots but keeps the context pointer and the slot list.
ShutdownKeepsContext(s, w) ==
    IF s.mContext = "null" THEN [s |-> s, w |-> w]
    ELSE LET w1 == WaitIdle(w)
             r == DestroyFrames(s, w1, s.mFrames, 0, Len(s.mFrames))
         IN [s |-> [s EXCEPT !.mCurrentFrameIndex = 0], w |-> r.w]

\* A Shutdown that destroys the slots without waiting for the device first.
ShutdownNoWait(s, w) ==
    IF s.mContext = "null" THEN [s |-> s, w |-> w]
    ELSE LET r == DestroyFrames(s, w, s.mFrames, 0, Len(s.mFrames))
         IN [s |-> [mContext |-> "null", mFrames |-> <<>>, mCurrentFrameIndex |-> 0],
             w |-> r.w]

\* FrameSynchronizer::Shutdown()
Shutdown(s, w) ==
    IF s.mContext = "null" THEN [s |-> s, w |-> w]
    ELSE LET w1 == WaitIdle(w)
             r == DestroyFrames(s, w1, s.mFrames, 0, Len(s.mFrames))
         IN [s |-> [mContext |-> "null", mFrames |-> <<>>, mCurrentFrameIndex |-> 0],
             w |-> r.w]

VkWaitResults == {"VK_SUCCESS", "VK_TIMEOUT", "VK_ERROR_DEVICE_LOST"}

\* What vkWaitForFences can return: success only for a signaled fence (the call
\* blocks until then), a timeout only when a finite timeout ran out first.
WaitFeasible(w, fence, timeout, res) ==
    /\ res = "VK_SUCCESS" => fence \in w.signaled
    /\ res = "VK_TIMEOUT" => timeout = "finite" /\ fence \notin w.signaled

\* A WaitForFrame that tells a timeout from success and takes every other answer of
\* the driver for success.
WaitForFrameLenient(s, w, timeout, res) ==
    IF ~IsInitialized(s)
    THEN [w |-> w, ok |-> FALSE, err |-> "Frame synchronizer not initialized"]
    ELSE LET w1 == CallRes(w, "vkWaitForFences", GetCurrentFence(s), res = "VK_SUCCESS") IN
         IF res = "VK_TIMEOUT" THEN [w |-> w1, ok |-> FALSE, err |-> "Timeout waiting for fence"]
         ELSE [w |-> w1, ok |-> TRUE, err |-> ""]

\* A WaitForFrame that resets the fence when the wait times out.
WaitForFrameResetOnTimeout(s, w, timeout, res) ==
    IF ~IsInitialized(s)
    THEN [w |-> w, ok |-> FALSE, err |-> "Frame synchronizer not initialized"]
    ELSE LET w1 == CallRes(w, "vkWaitForFences", GetCurrentFence(s), res = "VK_SUCCESS") IN
         IF res = "VK_TIMEOUT"
         THEN [w |-> [Call(w1, "vkResetFences", GetCurrentFence(s)) EXCEPT
                         !.signaled = @ \ {GetCurrentFence(s)}],
               ok |-> FALSE, err |-> "Timeout waiting for fence"]
         ELSE IF res # "VK_SUCCESS" THEN [w |-> w1, ok |-> FALSE, err |-> "Failed to wait for fence"]
         ELSE [w |-> w1, ok |-> TRUE, err |-> ""]

\* FrameSynchronizer::WaitForFrame(timeout), the driver answering res.
WaitForFrame(s, w, timeout, res) ==
    IF ~IsInitialized(s)
    THEN [w |-> w, ok |-> FALSE, err |-> "Frame synchronizer not initialized"]
    ELSE LET w1 == CallRes(w, "vkWaitForFences", GetCurrentFence(s), res = "VK_SUCCESS") IN
         IF res = "VK_TIMEOUT" THEN [w |-> w1, ok |-> FALSE, err |-> "Timeout waiting for fence"]
         ELSE IF res # "VK_SUCCESS" THEN [w |-> w1, ok |-> FALSE, err |-> "Failed to wait for fence"]
         ELSE [w |-> w1, ok |-> TRUE, err |-> ""]

\* FrameSynchronizer::ResetFence() on an initialized synchronizer.
ResetFence(s, w) ==
    [Call(w, "vkResetFences", GetCurrentFence(s)) EXCEPT !.signaled = @ \ {GetCurrentFence(s)}]

VkResetResults == {"VK_SUCCESS", "VK_ERROR_OUT_OF_DEVICE_MEMORY"}

\* A BeginFrame that resets the fence and the command buffer without waiting first.
BeginFrameNoWait(s, w, waitRes, resetRes) ==
    IF ~IsInitialized(s)
    THEN [w |-> w, ok |-> FALSE, err |-> "Frame synchronizer not initialized"]
    ELSE LET w1 == ResetFence(s, w)
             cmdBuffer == GetCurrentCommandBuffer(s)
             w2 == CallRes(w1, "vkResetCommandBuffer", cmdBuffer, resetRes = "VK_SUCCESS")
         IN IF resetRes # "VK_SUCCESS"
            THEN [w |-> w2, ok |-> FALSE, err |-> "Failed to reset command buffer"]
            ELSE [w |-> [w2 EXCEPT !.recorded = @ \ {cmdBuffer}], ok |-> TRUE, err |-> ""]

\* FrameSynchronizer::BeginFrame(): wait, reset the fence, reset the command buffer.
BeginFrame(s, w, waitRes, resetRes) ==
    IF ~IsInitialized(s)
    THEN [w |-> w, ok |-> FALSE, err |-> "Frame synchronizer not initialized"]
    ELSE LET r == WaitForFrame(s, w, "UINT64_MAX", waitRes) IN
         IF ~r.ok THEN r
         ELSE LET w1 == ResetFence(s, r.w)
                  cmdBuffer == GetCurrentCommandBuffer(s)
                  w2 == CallRes(w1, "vkResetCommandBuffer", cmdBuffer, resetRes = "VK_SUCCESS")
              IN IF resetRes # "VK_SUCCESS"
                 THEN [w |-> w2, ok |-> FALSE, err |-> "Failed to reset command buffer"]
                 ELSE [w |-> [w2 EXCEPT !.recorded = @ \ {cmdBuffer}], ok |-> TRUE, err |-> ""]

\* An EndFrame that wraps at the largest slot count instead of the actual one.
EndFrameWrapAtMax(s) ==
    [s EXCEPT !.mCurrentFrameIndex = (s.mCurrentFrameIndex + 1) % MaxFramesInFlight]

\* FrameSynchronizer::EndFrame() with at least one slot.
EndFrame(s) ==
    [s EXCEPT !.mCurrentFrameIndex = (s.mCurrentFrameIndex + 1) % GetFramesInFlight(s)]

----------------------------------------------------------------------------
\* SwapchainManager

\* SwapchainConfig: the default one and one a client fills in.
Configs ==
    {[preferredPresentMode |-> "VK_PRESENT_MODE_MAILBOX_KHR",
      preferredFormat |-> "VK_FORMAT_B8G8R8A8_UNORM", minImageCount |-> 3],
     [preferredPresentMode |-> "VK_PRESENT_MODE_FIFO_KHR",
      preferredFormat |-> "VK_FORMAT_B8G8R8A8_SRGB", minImageCount |-> 3]}

\* What a surface may support: its formats, its present modes (FIFO is supported by
\* every surface) and the most images a swapchain on it may have.
\* The extent is the surface's to decide: a surface either fixes the extent of its
\* swapchains (currentExtent) or leaves it to the swapchain within its limits.
SurfaceCaps ==
    {[formats |-> <<"VK_FORMAT_B8G8R8A8_UNORM", "VK_FORMAT_B8G8R8A8_SRGB">>,
      presentModes |-> {"VK_PRESENT_MODE_FIFO_KHR", "VK_PRESENT_MODE_MAILBOX_KHR"},
      maxImageCount |-> 3,
      fixesExtent |-> FALSE, currentExtent |-> <<0, 0>>,
      minImageExtent |-> <<1, 1>>, maxImageExtent |-> <<4096, 4096>>],
     [formats |-> <<"VK_FORMAT_R8G8B8A8_UNORM", "VK_FORMAT_R8G8B8A8_SRGB">>,
      presentModes |-> {"VK_PRESENT_MODE_FIFO_KHR"}, maxImageCount |-> 2,
      fixesExtent |-> TRUE, currentExtent |-> <<800, 600>>,
      minImageExtent |-> <<800, 600>>, maxImageExtent |-> <<800, 600>>],
     [formats |-> <<"VK_FORMAT_R8G8B8A8_UNORM">>,
      presentModes |-> {"VK_PRESENT_MODE_FIFO_KHR"}, maxImageCount |-> 3,
      fixesExtent |-> FALSE, currentExtent |-> <<0, 0>>,
      minImageExtent |-> <<1, 1>>, maxImageExtent |-> <<800, 600>>]}

Clamp(lo, hi, x) == IF x < lo THEN lo ELSE IF x > hi THEN hi ELSE x

\* The extent of the swapchain build() returns for set_desired_extent(width, height):
\* the surface's current extent if it fixes one, else the desired one within the limits.
FindExtent(surfaceCaps, width, height) ==
    IF surfaceCaps.fixesExtent THEN surfaceCaps.currentExtent
    ELSE <<Clamp(surfaceCaps.minImageExtent[1], surfaceCaps.maxImageExtent[1], width),
           Clamp(surfaceCaps.minImageExtent[2], surfaceCaps.maxImageExtent[2], height)>>

\* The number of images build() asks for: the desired minimum, clamped to the surface.
ImageCount(config, surfaceCaps) ==
    IF config.minImageCount <= surfaceCaps.maxImageCount
    THEN config.minImageCount ELSE surfaceCaps.maxImageCount

RECURSIVE FirstSupported(_, _, _)
FirstSupported(wanted, supported, default) ==
    IF wanted = <<>> THEN default
    ELSE IF Head(wanted) \in supported THEN Head(wanted)
    ELSE FirstSupported(Tail(wanted), supported, default)

\* A negotiation without fallbacks: the desired format, else the surface's first
\* format; the desired present mode, supported or not.
NegotiatedWithoutFallback(config, surfaceCaps) ==
    [format |-> FirstSupported(<<config.preferredFormat>>,
                               SeqToSet(surfaceCaps.formats), surfaceCaps.formats[1]),
     presentMode |-> config.preferredPresentMode,
     surface |-> surfaceCaps]

\* What swapchainBuilder.build() settles on: the first supported of the desired
\* format and the two fallback formats (else the surface's first format), and the
\* first supported of the desired present mode and the FIFO fallback.
Negotiated(config, surfaceCaps) ==
    [format |-> FirstSupported(
                   <<config.preferredFormat, "VK_FORMAT_B8G8R8A8_SRGB", "VK_FORMAT_R8G8B8A8_SRGB">>,
                   SeqToSet(surfaceCaps.formats), surfaceCaps.formats[1]),
     presentMode |-> FirstSupported(
                   <<config.preferredPresentMode, "VK_PRESENT_MODE_FIFO_KHR">>,
                   surfaceCaps.presentModes, "VK_PRESENT_MODE_FIFO_KHR"),
     surface |-> surfaceCaps]

\* Where a swapchain build can fail: "build" (swapchainBuilder.build()), "images"
\* (get_images()), "views" (get_image_views()); "none": nothing fails.
BuildOutcomes == {"none", "build", "images", "views"}

\* swapchainBuilder.build() succeeding: a swapchain object owning count images.
RECURSIVE CreateImages(_, _, _)
CreateImages(w, swapchain, count) ==
    IF count = 0 THEN w
    ELSE CreateImages(
            [w EXCEPT !.live = @ \cup {NewHandle(w)},
                      !.owned = @ \cup {<<swapchain, NewHandle(w)>>},
                      !.taken = @ \cup {NewHandle(w)}],
            swapchain, count - 1)

BuildSwapchain(w, count) ==
    CreateImages(CreateObject(w, "vkCreateSwapchainKHR", VK_NULL_HANDLE, FALSE),
                 NewHandle(w), count)

\* vkbSwapchain->get_images(): the handles of the images the swapchain owns, in order.
RECURSIVE SortedSeq(_)
SortedSeq(S) ==
    IF S = {} THEN <<>>
    ELSE LET m == CHOOSE x \in S : \A y \in S : x <= y IN <<m>> \o SortedSeq(S \ {m})

GetImages(w, swapchain) == SortedSeq(Children(w, swapchain))

\* vkbSwapchain->get_image_views(): one vkCreateImageView per image; the call that
\* fails (failAt, 0: none) ends it, and the views made before it stay behind.
RECURSIVE GetImageViews(_, _, _, _, _)
GetImageViews(w, views, i, count, failAt) ==
    IF i > count THEN [w |-> w, views |-> views, ok |-> TRUE]
    ELSE IF i = failAt
    THEN [w |-> CallRes(w, "vkCreateImageView", VK_NULL_HANDLE, FALSE), views |-> <<>>, ok |-> FALSE]
    ELSE GetImageViews(CreateObject(w, "vkCreateImageView", VK_NULL_HANDLE, FALSE),
                       Append(views, NewHandle(w)), i + 1, count, failAt)

\* SwapchainManager::CreateImageViews()
CreateImageViews(sw, w, failAt) ==
    LET r == GetImageViews(w, <<>>, 1, Cardinality(Children(w, sw.vkbSwapchain)), failAt) IN
    IF ~r.ok THEN [sw |-> sw, w |-> r.w, ok |-> FALSE, err |-> "Failed to create swapchain image views"]
    ELSE [sw |-> [sw EXCEPT !.mImageViews = r.views], w |-> r.w, ok |-> TRUE, err |-> ""]

\* SwapchainManager::DestroyImageViews()
RECURSIVE DestroyViews(_, _, _)
DestroyViews(w, views, i) ==
    IF i > Len(views) THEN w
    ELSE DestroyViews(IF views[i] # VK_NULL_HANDLE
                      THEN DestroyObject(w, "vkDestroyImageView", views[i]) ELSE w,
                      views, i + 1)

DestroyImageViews(sw, w) ==
    IF sw.mContext = "null" THEN [sw |-> sw, w |-> w]
    ELSE [sw |-> [sw EXCEPT !.mImageViews = <<>>], w |-> DestroyViews(w, sw.mImageViews, 1)]

\* An adoption of the new swapchain that leaves mExtent as it was.
AdoptKeepsExtent(sw, w, extent, chosen) ==
    [sw EXCEPT !.vkbSwapchain = NewHandle(w), !.mSwapchain = NewHandle(w),
               !.mFormat = chosen.format, !.mPresentMode = chosen.presentMode]

\* The assignments both Initialize and Recreate make once build() has succeeded;
\* extent is mImpl->vkbSwapchain->extent.
Adopt(sw, w, extent, chosen) ==
    [sw EXCEPT !.vkbSwapchain = NewHandle(w), !.mSwapchain = NewHandle(w),
               !.mFormat = chosen.format, !.mExtent = extent,
               !.mPresentMode = chosen.presentMode]

\* An Initialize whose dimension check looks at the width alone.
SwapchainInitializeWidthOnly(sw, w, context, surface, width, height, config, outcome, chosen, count, failAt) ==
    IF ~ContextOk(context)
    THEN [sw |-> sw, w |-> w, ok |-> FALSE, err |-> "Invalid or uninitialized context"]
    ELSE IF surface = "null"
    THEN [sw |-> sw, w |-> w, ok |-> FALSE, err |-> "Invalid surface provided"]
    ELSE IF width = 0
    THEN [sw |-> sw, w |-> w, ok |-> FALSE, err |-> "Invalid swapchain dimensions"]
    ELSE
    LET sw1 == [sw EXCEPT !.mContext = context, !.mSurface = surface, !.mConfig = config] IN
    IF outcome = "build"
    THEN [sw |-> sw1, w |-> CallRes(w, "vkCreateSwapchainKHR", VK_NULL_HANDLE, FALSE),
          ok |-> FALSE, err |-> "Failed to create swapchain"]
    ELSE
    LET w1 == BuildSwapchain(w, count)
        sw2 == Adopt(sw1, w, FindExtent(chosen.surface, width, height), chosen)
    IN
    IF outcome = "images"
    THEN [sw |-> sw2, w |-> CallRes(w1, "vkGetSwapchainImagesKHR", sw2.vkbSwapchain, FALSE),
          ok |-> FALSE, err |-> "Failed to get swapchain images"]
    ELSE CreateImageViews([sw2 EXCEPT !.mImages = GetImages(w1, sw2.vkbSwapchain)],
                          Call(w1, "vkGetSwapchainImagesKHR", sw2.vkbSwapchain),
                          IF outcome = "views" THEN failAt ELSE 0)

\* SwapchainManager::Initialize(context, surface, width, height, config). The
\* driver's part is given: where the build fails (outcome), what the builder
\* negotiated (chosen), how many images the swapchain got (count) and which view
\* creation fails (failAt).
SwapchainInitialize(sw, w, context, surface, width, height, config, outcome, chosen, count, failAt) ==
    IF ~ContextOk(context)
    THEN [sw |-> sw, w |-> w, ok |-> FALSE, err |-> "Invalid or uninitialized context"]
    ELSE IF surface = "null"
    THEN [sw |-> sw, w |-> w, ok |-> FALSE, err |-> "Invalid surface provided"]
    ELSE IF width = 0 \/ height = 0
    THEN [sw |-> sw, w |-> w, ok |-> FALSE, err |-> "Invalid swapchain dimensions"]
    ELSE
    LET sw1 == [sw EXCEPT !.mContext = context, !.mSurface = surface, !.mConfig = config] IN
    IF outcome = "build"
    THEN [sw |-> sw1, w |-> CallRes(w, "vkCreateSwapchainKHR", VK_NULL_HANDLE, FALSE),
          ok |-> FALSE, err |-> "Failed to create swapchain"]
    ELSE
    LET w1 == BuildSwapchain(w, count)
        sw2 == Adopt(sw1, w, FindExtent(chosen.surface, width, height), chosen)
    IN
    IF outcome = "images"
    THEN [sw |-> sw2, w |-> CallRes(w1, "vkGetSwapchainImagesKHR", sw2.vkbSwapchain, FALSE),
          ok |-> FALSE, err |-> "Failed to get swapchain images"]
    ELSE CreateImageViews([sw2 EXCEPT !.mImages = GetImages(w1, sw2.vkbSwapchain)],
                          Call(w1, "vkGetSwapchainImagesKHR", sw2.vkbSwapchain),
                          IF outcome = "views" THEN failAt ELSE 0)

\* A Recreate that destroys the previous swapchain before it builds the new one.
RecreateDestroyFirst(sw, w, width, height, outcome, chosen, count, failAt) ==
    IF sw.mContext = "null"
    THEN [sw |-> sw, w |-> w, ok |-> FALSE, err |-> "Context not set"]
    ELSE IF width = 0 \/ height = 0
    THEN [sw |-> sw, w |-> w, ok |-> FALSE, err |-> "Invalid swapchain dimensions"]
    ELSE
    LET d == DestroyImageViews(sw, WaitIdle(w))
        w0 == IF sw.vkbSwapchain # VK_NULL_HANDLE
              THEN DestroyObject(d.w, "vkDestroySwapchainKHR", sw.vkbSwapchain) ELSE d.w
    IN
    IF outcome = "build"
    THEN [sw |-> d.sw, w |-> CallRes(w0, "vkCreateSwapchainKHR", VK_NULL_HANDLE, FALSE),
          ok |-> FALSE, err |-> "Failed to recreate swapchain"]
    ELSE
    LET w1 == BuildSwapchain(w0, count)
        sw2 == Adopt(d.sw, w0, FindExtent(chosen.surface, width, height), chosen)
    IN
    IF outcome = "images"
    THEN [sw |-> sw2, w |-> CallRes(w1, "vkGetSwapchainImagesKHR", sw2.vkbSwapchain, FALSE),
          ok |-> FALSE, err |-> "Failed to get swapchain images"]
    ELSE CreateImageViews([sw2 EXCEPT !.mImages = GetImages(w1, sw2.vkbSwapchain)],
                          Call(w1, "vkGetSwapchainImagesKHR", sw2.vkbSwapchain),
                          IF outcome = "views" THEN failAt ELSE 0)

\* SwapchainManager::Recreate(width, height). The builder is handed the previous
\* swapchain (set_old_swapchain) when there is one.
Recreate(sw, w, width, height, outcome, chosen, count, failAt) ==
    IF sw.mContext = "null"
    THEN [sw |-> sw, w |-> w, ok |-> FALSE, err |-> "Context not set"]
    ELSE IF width = 0 \/ height = 0
    THEN [sw |-> sw, w |-> w, ok |-> FALSE, err |-> "Invalid swapchain dimensions"]
    ELSE
    LET d == DestroyImageViews(sw, WaitIdle(w))
        w0 == IF sw.vkbSwapchain # VK_NULL_HANDLE
              THEN Call(d.w, "set_old_swapchain", sw.vkbSwapchain) ELSE d.w
    IN
    IF outcome = "build"
    THEN [sw |-> d.sw, w |-> CallRes(w0, "vkCreateSwapchainKHR", VK_NULL_HANDLE, FALSE),
          ok |-> FALSE, err |-> "Failed to recreate swapchain"]
    ELSE
    LET w1 == BuildSwapchain(w0, count)
        w2 == IF sw.vkbSwapchain # VK_NULL_HANDLE
              THEN DestroyObject(w1, "vkDestroySwapchainKHR", sw.vkbSwapchain) ELSE w1
        sw2 == Adopt(d.sw, w0, FindExtent(chosen.surface, width, height), chosen)
    IN
    IF outcome = "images"
    THEN [sw |-> sw2, w |-> CallRes(w2, "vkGetSwapchainImagesKHR", sw2.vkbSwapchain, FALSE),
          ok |-> FALSE, err |-> "Failed to get swapchain images"]
    ELSE CreateImageViews([sw2 EXCEPT !.mImages = GetImages(w2, sw2.vkbSwapchain)],
                          Call(w2, "vkGetSwapchainImagesKHR", sw2.vkbSwapchain),
                          IF outcome = "views" THEN failAt ELSE 0)

\* SwapchainManager::Shutdown()
SwapchainShutdown(sw, w) ==
    IF sw.mContext = "null" THEN [sw |-> sw, w |-> w]
    ELSE LET d == DestroyImageViews(sw, w) IN
         [sw |-> [d.sw EXCEPT !.mImages = <<>>,
                              !.vkbSwapchain = VK_NULL_HANDLE,
                              !.mSwapchain = IF sw.vkbSwapchain # VK_NULL_HANDLE
                                             THEN VK_NULL_HANDLE ELSE @],
          w |-> IF sw.vkbSwapchain # VK_NULL_HANDLE
                THEN DestroyObject(d.w, "vkDestroySwapchainKHR", sw.vkbSwapchain) ELSE d.w]

\* SwapchainManager::IsInitialized(): mSwapchain != VK_NULL_HANDLE
SwapchainIsInitialized(sw) == sw.mSwapchain # VK_NULL_HANDLE

VkAcquireResults ==
    {"VK_SUCCESS", "VK_SUBOPTIMAL_KHR", "VK_ERROR_OUT_OF_DATE_KHR", "VK_TIMEOUT",
     "VK_NOT_READY", "VK_ERROR_DEVICE_LOST"}

\* SwapchainManager::AcquireNextImage(signalSemaphore, timeout), the driver
\* answering res (and imageIndex when it hands out an image).
AcquireNextImage(sw, w, signalSemaphore, res, imageIndex) ==
    IF sw.mContext = "null" \/ sw.mSwapchain = VK_NULL_HANDLE
    THEN [w |-> w, ok |-> FALSE, err |-> "Swapchain not initialized", val |-> 0]
    ELSE LET w1 == CallRes(w, "vkAcquireNextImageKHR", signalSemaphore,
                           res \in {"VK_SUCCESS", "VK_SUBOPTIMAL_KHR"}) IN
         IF res = "VK_ERROR_OUT_OF_DATE_KHR"
         THEN [w |-> w1, ok |-> FALSE, err |-> "Swapchain out of date - needs recreation", val |-> 0]
         ELSE IF res = "VK_SUBOPTIMAL_KHR"
         THEN [w |-> w1, ok |-> TRUE, err |-> "", val |-> imageIndex]
         ELSE IF res # "VK_SUCCESS"
         THEN [w |-> w1, ok |-> FALSE, err |-> "Failed to acquire swapchain image", val |-> 0]
         ELSE [w |-> w1, ok |-> TRUE, err |-> "", val |-> imageIndex]

VkPresentResults ==
    {"VK_SUCCESS", "VK_SUBOPTIMAL_KHR", "VK_ERROR_OUT_OF_DATE_KHR", "VK_ERROR_DEVICE_LOST"}

\* vkQueuePresentKHR: a present that was queued waits on its semaphore; the
\* presentation engine consumes that wait later, on its own.
QueuePresent(w, waitSemaphore, imageIndex, queued) ==
    [CallRes(w, "vkQueuePresentKHR", waitSemaphore, queued) EXCEPT
        !.presents = IF queued /\ waitSemaphore # VK_NULL_HANDLE
                     THEN Append(@, [wait |-> waitSemaphore, image |-> imageIndex]) ELSE @]

\* SwapchainManager::Present(imageIndex, waitSemaphore), the driver answering res.
Present(sw, w, imageIndex, waitSemaphore, res) ==
    IF sw.mContext = "null" \/ sw.mSwapchain = VK_NULL_HANDLE
    THEN [w |-> w, ok |-> FALSE, err |-> "Swapchain not initialized"]
    ELSE LET w1 == QueuePresent(w, waitSemaphore, imageIndex,
                                res \in {"VK_SUCCESS", "VK_SUBOPTIMAL_KHR"}) IN
         IF res = "VK_ERROR_OUT_OF_DATE_KHR" \/ res = "VK_SUBOPTIMAL_KHR"
         THEN [w |-> w1, ok |-> FALSE, err |-> "Swapchain out of date - needs recreation"]
         ELSE IF res # "VK_SUCCESS"
         THEN [w |-> w1, ok |-> FALSE, err |-> "Failed to present swapchain image"]
         ELSE [w |-> w1, ok |-> TRUE, err |-> ""]

----------------------------------------------------------------------------
\* VulkanContext. Handles are device-side objects as above; a queue is named by the
\* kind of queue the lookup returned. The unique_ptrs of mImpl hold the handle of the
\* vk-bootstrap object, or null.

ContextInit ==
    [mInstance |-> VK_NULL_HANDLE, mPhysicalDevice |-> VK_NULL_HANDLE,
     mDevice |-> VK_NULL_HANDLE, mAllocator |-> VK_NULL_HANDLE,
     mGraphicsQueue |-> "null", mComputeQueue |-> "null",
     mTransferQueue |-> "null", mPresentQueue |-> "null",
     mQueueFamilies |-> [graphicsFamily |-> "unset", computeFamily |-> "unset",
                         transferFamily |-> "unset", presentFamily |-> "unset",
                         hasDiscreteTransfer |-> FALSE, hasDiscreteCompute |-> FALSE],
     vkbInstance |-> VK_NULL_HANDLE, vkbPhysicalDevice |-> VK_NULL_HANDLE,
     vkbDevice |-> VK_NULL_HANDLE, mValidationEnabled |-> FALSE]

HasInstance(c) == c.mInstance # VK_NULL_HANDLE

HasDevice(c) == c.mDevice # VK_NULL_HANDLE

\* VulkanContext::IsInitialized()
ContextIsInitialized(c) == HasInstance(c) /\ HasDevice(c)

\* VulkanContext::WaitIdle()
ContextWaitIdle(c, w) == IF c.mDevice # VK_NULL_HANDLE THEN DeviceWaitIdle(w) ELSE w

\* VulkanContext::CreateInstance(config); built says whether instanceBuilder.build() succeeds.
CreateInstance(c, w, enableValidation, built) ==
    IF HasInstance(c)
    THEN [c |-> c, w |-> w, ok |-> FALSE, err |-> "Instance already created"]
    ELSE LET c1 == [c EXCEPT !.mValidationEnabled = enableValidation] IN
         IF ~built
         THEN [c |-> c1, w |-> CallRes(w, "vkCreateInstance", VK_NULL_HANDLE, FALSE),
               ok |-> FALSE, err |-> "Failed to create instance"]
         ELSE [c |-> [c1 EXCEPT !.vkbInstance = NewHandle(w), !.mInstance = NewHandle(w)],
               w |-> CreateObject(w, "vkCreateInstance", VK_NULL_HANDLE, FALSE),
               ok |-> TRUE, err |-> ""]

\* The steps of CreateDevice that can fail, in the code's order.
CreateDeviceSteps ==
    <<"select", "build", "graphics_queue", "graphics_family", "allocator">>

\* What the optional lookups of CreateDevice find: a separate compute queue, a separate
\* transfer queue, and the queue that presents ("none" if the lookup fails).
QueueLookups ==
    [compute : BOOLEAN, transfer : BOOLEAN, present : {"none", "present"}]

\* VulkanContext::InitializeAllocator()
InitializeAllocator(c, w, created) ==
    IF ~created
    THEN [c |-> c, w |-> CallRes(w, "vmaCreateAllocator", VK_NULL_HANDLE, FALSE),
          ok |-> FALSE, err |-> "Failed to create VMA allocator"]
    ELSE [c |-> [c EXCEPT !.mAllocator = NewHandle(w)],
          w |-> CreateObject(w, "vmaCreateAllocator", VK_NULL_HANDLE, FALSE),
          ok |-> TRUE, err |-> ""]

\* The queues and queue families CreateDevice stores once the graphics lookups succeeded.
WithQueues(c, surface, found) ==
    [c EXCEPT
        !.mComputeQueue = IF found.compute THEN "compute" ELSE "graphics",
        !.mTransferQueue = IF found.transfer THEN "transfer" ELSE "graphics",
        !.mPresentQueue = IF surface # "null" /\ found.present # "none"
                          THEN found.present ELSE "graphics"]

WithQueueFamilies(c, surface, found) ==
    [c EXCEPT !.mQueueFamilies =
        [graphicsFamily |-> "graphics",
         computeFamily |-> IF found.compute THEN "compute" ELSE "graphics",
         transferFamily |-> IF found.transfer THEN "transfer" ELSE "graphics",
         presentFamily |-> IF surface # "null" /\ found.present # "none"
                           THEN found.present ELSE "graphics",
         hasDiscreteCompute |-> found.compute,
         hasDiscreteTransfer |-> found.transfer]]

\* VulkanContext::CreateDevice(config); failAt names the step that fails ("none": no step).
CreateDevice(c, w, surface, failAt, found) ==
    IF ~HasInstance(c)
    THEN [c |-> c, w |-> w, ok |-> FALSE, err |-> "Instance must be created before device"]
    ELSE IF HasDevice(c)
    THEN [c |-> c, w |-> w, ok |-> FALSE, err |-> "Device already created"]
    ELSE IF failAt = "select"
    THEN [c |-> c, w |-> CallRes(w, "vkEnumeratePhysicalDevices", c.mInstance, FALSE),
          ok |-> FALSE, err |-> "Failed to select physical device"]
    ELSE
    LET w1 == IF c.vkbPhysicalDevice \in w.live
              THEN Call(w, "vkEnumeratePhysicalDevices", c.vkbPhysicalDevice)
              ELSE CreateObject(w, "vkEnumeratePhysicalDevices", c.mInstance, FALSE)
        physical == IF c.vkbPhysicalDevice \in w.live THEN c.vkbPhysicalDevice ELSE NewHandle(w)
        c1 == [c EXCEPT !.vkbPhysicalDevice = physical, !.mPhysicalDevice = physical]
    IN
    IF failAt = "build"
    THEN [c |-> c1, w |-> CallRes(w1, "vkCreateDevice", VK_NULL_HANDLE, FALSE),
          ok |-> FALSE, err |-> "Failed to create device"]
    ELSE
    LET w2 == CreateObject(w1, "vkCreateDevice", VK_NULL_HANDLE, FALSE)
        c2 == [c1 EXCEPT !.vkbDevice = NewHandle(w1), !.mDevice = NewHandle(w1)]
    IN
    IF failAt = "graphics_queue"
    THEN [c |-> c2, w |-> w2, ok |-> FALSE, err |-> "Failed to get graphics queue"]
    ELSE
    LET c3 == WithQueues([c2 EXCEPT !.mGraphicsQueue = "graphics"], surface, found) IN
    IF failAt = "graphics_family"
    THEN [c |-> c3, w |-> w2, ok |-> FALSE, err |-> "Failed to get graphics queue family index"]
    ELSE InitializeAllocator(WithQueueFamilies(c3, surface, found), w2, failAt # "allocator")

\* VulkanContext::Initialize(config)
ContextInitialize(c, w, enableValidation, built, surface, failAt, found) ==
    LET r == CreateInstance(c, w, enableValidation, built) IN
    IF ~r.ok THEN r ELSE CreateDevice(r.c, r.w, surface, failAt, found)

\* VulkanContext::Shutdown()
ContextShutdown(c, w) ==
    LET w0 == ContextWaitIdle(c, w)
        w1 == IF c.mAllocator # VK_NULL_HANDLE
              THEN DestroyObject(w0, "vmaDestroyAllocator", c.mAllocator) ELSE w0
        c1 == [c EXCEPT !.mAllocator = VK_NULL_HANDLE]
        w2 == IF c1.vkbDevice # VK_NULL_HANDLE
              THEN DestroyObject(w1, "vkDestroyDevice", c1.vkbDevice) ELSE w1
        c2 == IF c1.vkbDevice # VK_NULL_HANDLE
              THEN [c1 EXCEPT !.vkbDevice = VK_NULL_HANDLE, !.mDevice = VK_NULL_HANDLE] ELSE c1
        c3 == IF c2.vkbPhysicalDevice # VK_NULL_HANDLE
              THEN [c2 EXCEPT !.vkbPhysicalDevice = VK_NULL_HANDLE,
                              !.mPhysicalDevice = VK_NULL_HANDLE] ELSE c2
        w3 == IF c3.vkbInstance # VK_NULL_HANDLE
              THEN DestroyObject(w2, "vkDestroyInstance", c3.vkbInstance) ELSE w2
        c4 == IF c3.vkbInstance # VK_NULL_HANDLE
              THEN [c3 EXCEPT !.vkbInstance = VK_NULL_HANDLE, !.mInstance = VK_NULL_HANDLE] ELSE c3
    IN [c |-> c4, w |-> w3]

----------------------------------------------------------------------------
\* State after construction.

SyncInit == [mContext |-> "null", mFrames |-> <<>>, mCurrentFrameIndex |-> 0]

SwapInit ==
    [mContext |-> "null", mSurface |-> "null", mSwapchain |-> VK_NULL_HANDLE,
     mFormat |-> "VK_FORMAT_UNDEFINED", mColorSpace |-> "VK_COLOR_SPACE_SRGB_NONLINEAR_KHR",
     mExtent |-> <<0, 0>>, mPresentMode |-> "VK_PRESENT_MODE_FIFO_KHR",
     mImages |-> <<>>, mImageViews |-> <<>>,
     mConfig |-> [preferredPresentMode |-> "VK_PRESENT_MODE_MAILBOX_KHR",
                  preferredFormat |-> "VK_FORMAT_B8G8R8A8_UNORM", minImageCount |-> 3],
     vkbSwapchain |-> VK_NULL_HANDLE]

DevInit ==
    [live |-> {}, owned |-> {}, signaled |-> {}, pending |-> <<>>, recorded |-> {},
     presents |-> <<>>]

InitWith(driver) ==
    /\ sync = SyncInit
    /\ swap = SwapInit
    /\ dev = DevInit
    /\ log = <<>>
    /\ ret = [op |-> "none", ok |-> TRUE, err |-> "", n |-> 0, val |-> 0]
    /\ fault = "none"
    /\ halted = FALSE
    /\ endCalls = 0
    /\ caps \in IF driver = "swap" THEN SurfaceCaps
                   ELSE {c \in SurfaceCaps : "VK_PRESENT_MODE_MAILBOX_KHR" \in c.presentModes}
    /\ pc = driver
    /\ frame = [imageIndex |-> 0, count |-> 0]
    /\ ctx = ContextInit

FirstFault(w, what) == [w EXCEPT !.fault = IF @ = "none" THEN what ELSE @]

LiveCount == Cardinality(dev.live)

\* Live objects whose handle the program no longer stores.
Leaked == (dev.live \ Stored) \ {q[2] : q \in dev.owned}

----------------------------------------------------------------------------
\* A client calling FrameSynchronizer freely (pc = "sync"), with the GPU running beside it.

\* Slot failSlot fails at step failStep (0, 0: nothing fails); only a call that
\* reaches the creation loop can meet a failure.
Failures(context, n) ==
    IF ContextOk(context) /\ n >= MinFramesInFlight /\ n <= MaxFramesInFlight
    THEN {<<0, 0>>} \cup ((0..(n - 1)) \X (1..5))
    ELSE {<<0, 0>>}

SyncInitialize ==
    /\ pc = "sync" /\ ~halted
    /\ Cardinality(Leaked) <= MaxLeaked
    /\ \E context \in Contexts, n \in 0..(MaxFramesInFlight + 1) :
        /\ n <= MaxFramesInFlight => LiveCount + 5 * n <= MaxHandles
        /\ \E fail \in Failures(context, n) :
            LET r == Initialize(sync, Work, context, n, fail[1], fail[2]) IN
                /\ sync' = r.s
                /\ Commit(r.w)
                /\ ret' = IF r.ok THEN Ok("Initialize", n)
                          ELSE Unexpected("Initialize", n, r.err)
                /\ endCalls' = IF r.ok \/ ~IsInitialized(r.s) THEN 0 ELSE endCalls
    /\ UNCHANGED <<swap, halted, caps, pc, frame, ctx>>

SyncShutdown ==
    /\ pc = "sync" /\ ~halted
    /\ LET r == Shutdown(sync, Work) IN
        /\ sync' = r.s
        /\ Commit(r.w)
    /\ ret' = Ok("Shutdown", 0)
    /\ endCalls' = 0
    /\ UNCHANGED <<swap, halted, caps, pc, frame, ctx>>

SyncBeginFrame ==
    \E waitRes \in VkWaitResults, resetRes \in VkResetResults :
        /\ pc = "sync" /\ ~halted
        /\ IF IsInitialized(sync)
           THEN /\ WaitFeasible(Work, GetCurrentFence(sync), "UINT64_MAX", waitRes)
                /\ waitRes # "VK_SUCCESS" => resetRes = "VK_SUCCESS"
           ELSE waitRes = "VK_SUCCESS" /\ resetRes = "VK_SUCCESS"
        /\ LET r == BeginFrame(sync, Work, waitRes, resetRes) IN
            /\ Commit(r.w)
            /\ ret' = IF r.ok THEN Ok("BeginFrame", 0) ELSE Unexpected("BeginFrame", 0, r.err)
        /\ UNCHANGED <<sync, swap, halted, endCalls, caps, pc, frame, ctx>>

SyncWaitForFrame ==
    \E timeout \in Timeouts, waitRes \in VkWaitResults :
        /\ pc = "sync" /\ ~halted
        /\ IF IsInitialized(sync)
           THEN WaitFeasible(Work, GetCurrentFence(sync), timeout, waitRes)
           ELSE waitRes = "VK_SUCCESS" /\ timeout = "UINT64_MAX"
        /\ LET r == WaitForFrame(sync, Work, timeout, waitRes) IN
            /\ Commit(r.w)
            /\ ret' = IF r.ok THEN Ok("WaitForFrame", 0) ELSE Unexpected("WaitForFrame", 0, r.err)
        /\ UNCHANGED <<sync, swap, halted, endCalls, caps, pc, frame, ctx>>

\* ResetFence() has no guard: with no slot it indexes an empty vector and, with no
\* context, dereferences a null pointer; the process crashes or carries on unharmed.
SyncResetFence ==
    /\ pc = "sync" /\ ~halted
    /\ IF IsInitialized(sync)
       THEN Commit(ResetFence(sync, Work)) /\ halted' = FALSE
       ELSE Commit(FirstFault(Work, "invalid_slot_access")) /\ halted' \in BOOLEAN
    /\ ret' = Ok("ResetFence", 0)
    /\ UNCHANGED <<sync, swap, endCalls, caps, pc, frame, ctx>>

\* EndFrame(): with no slot the remainder is taken by zero; the process traps, or the
\* division yields zero and the index moves on by one.
SyncEndFrame ==
    /\ pc = "sync" /\ ~halted
    /\ IF GetFramesInFlight(sync) > 0
       THEN /\ endCalls < MaxEndCalls
            /\ sync' = EndFrame(sync)
            /\ endCalls' = endCalls + 1
            /\ Commit(Work) /\ halted' = FALSE
       ELSE /\ Commit(FirstFault(Work, "division_by_zero"))
            /\ endCalls' = endCalls
            /\ \/ halted' = TRUE /\ sync' = sync
               \/ /\ sync.mCurrentFrameIndex < MaxStaleIndex
                  /\ halted' = FALSE
                  /\ sync' = [sync EXCEPT !.mCurrentFrameIndex = @ + 1]
    /\ ret' = Ok("EndFrame", 0)
    /\ UNCHANGED <<swap, caps, pc, frame, ctx>>

PendingFences(d) == {d.pending[i].fence : i \in 1..Len(d.pending)}

PendingBuffers(d) == {d.pending[i].cmd : i \in 1..Len(d.pending)}

\* RecordCommandBuffer(commandBuffer, imageIndex): the buffer now holds commands.
RecordCommandBuffer(w, commandBuffer) ==
    [Call(w, "vkEndCommandBuffer", commandBuffer) EXCEPT !.recorded = @ \cup {commandBuffer}]

\* vkQueueSubmit(queue, 1, &submitInfo, fence): one more outstanding submission,
\* which signals the fence when its work completes.
QueueSubmit(w, commandBuffer, waitSemaphore, signalSemaphore, fence) ==
    [Call(w, "vkQueueSubmit", fence) EXCEPT
        !.pending = Append(@, [fence |-> fence, cmd |-> commandBuffer,
                               wait |-> waitSemaphore, signal |-> signalSemaphore])]

\* The client submits the current slot's buffer with the current slot's fence, as the
\* valid usage of vkQueueSubmit asks: the fence unsignaled and not already in use.
ClientSubmit ==
    /\ pc = "sync" /\ ~halted
    /\ IsInitialized(sync)
    /\ GetCurrentFence(sync) \notin dev.signaled \cup PendingFences(dev)
    /\ GetCurrentCommandBuffer(sync) \notin PendingBuffers(dev)
    /\ Commit(QueueSubmit(Work, GetCurrentCommandBuffer(sync),
                          GetCurrentImageAvailableSemaphore(sync),
                          GetCurrentRenderFinishedSemaphore(sync), GetCurrentFence(sync)))
    /\ ret' = Ok("vkQueueSubmit", 0)
    /\ UNCHANGED <<sync, swap, halted, endCalls, caps, pc, frame, ctx>>

RemoveAt(q, i) == SubSeq(q, 1, i - 1) \o SubSeq(q, i + 1, Len(q))

\* The GPU finishes one outstanding submission and signals its fence.
GpuComplete ==
    \E i \in 1..Len(dev.pending) :
        /\ ~halted
        /\ dev' = [dev EXCEPT !.pending = RemoveAt(@, i),
                              !.signaled = @ \cup ({dev.pending[i].fence} \cap dev.live)]
        /\ log' = <<>>
        /\ ret' = Ok("gpu", 0)
        /\ UNCHANGED <<sync, swap, fault, halted, endCalls, caps, pc, frame, ctx>>

\* Semaphores a queued present still waits on, and semaphores an outstanding
\* submission has yet to signal.
PresentWaits(d) == {d.presents[i].wait : i \in 1..Len(d.presents)}

PendingSignals(d) == {d.pending[i].signal : i \in 1..Len(d.pending)}

\* The semaphore wait of the oldest queued present is consumed, once the semaphore
\* has been signaled; nothing tells the program when.
PresentationEngine ==
        /\ ~halted
        /\ dev.presents # <<>>
        /\ Head(dev.presents).wait \notin PendingSignals(dev)
        /\ dev' = [dev EXCEPT !.presents = Tail(@)]
        /\ log' = <<>>
        /\ ret' = Ok("presentation", 0)
        /\ UNCHANGED <<sync, swap, fault, halted, endCalls, caps, pc, frame, ctx>>

NextSync ==
    \/ SyncInitialize
    \/ SyncShutdown
    \/ SyncBeginFrame
    \/ SyncWaitForFrame
    \/ SyncResetFence
    \/ SyncEndFrame
    \/ ClientSubmit
    \/ GpuComplete

SpecSync == InitWith("sync") /\ [][NextSync]_vars

----------------------------------------------------------------------------
\* A client calling SwapchainManager freely (pc = "swap").

Surfaces == {"null", "surface"}

Dims == {<<0, 600>>, <<800, 0>>, <<800, 600>>, <<1024, 768>>}

DefaultConfig == SwapInit.mConfig

\* The arguments a client passes to Initialize: a window of 800x600 under either
\* configuration, and each argument wrong in turn.
InitializeArgs ==
    {[context |-> "ctx", surface |-> "surface", dim |-> <<800, 600>>, config |-> c] :
        c \in Configs}
    \cup {[context |-> c, surface |-> "surface", dim |-> <<800, 600>>,
            config |-> DefaultConfig] : c \in Contexts}
    \cup {[context |-> "ctx", surface |-> s, dim |-> d, config |-> DefaultConfig] :
            s \in Surfaces, d \in {e \in Dims : e[1] = 800}}

\* The driver's part of one swapchain build under a configuration: where it fails and
\* which view creation fails.
Drivers(config) ==
    {[outcome |-> o, count |-> ImageCount(config, caps), failAt |-> 0] :
        o \in {"none", "build", "images"}}
    \cup {[outcome |-> "views", count |-> ImageCount(config, caps), failAt |-> j] :
            j \in 1..ImageCount(config, caps)}

NoDriver(config) == {[outcome |-> "none", count |-> ImageCount(config, caps), failAt |-> 0]}

\* Most objects one swapchain build creates: the swapchain, 3 images, 3 views.
MayBuild == LiveCount + 7 <= MaxHandles /\ Cardinality(Leaked) <= MaxLeaked

SwapInitialize ==
    /\ pc = "swap" /\ ~halted
    /\ MayBuild
    /\ \E a \in InitializeArgs :
        \E d \in IF ContextOk(a.context) /\ a.surface # "null" /\ a.dim[1] # 0 /\ a.dim[2] # 0
                 THEN Drivers(a.config) ELSE NoDriver(a.config) :
            LET r == SwapchainInitialize(swap, Work, a.context, a.surface, a.dim[1], a.dim[2],
                                         a.config, d.outcome, Negotiated(a.config, caps),
                                         d.count, d.failAt) IN
                /\ swap' = r.sw
                /\ Commit(r.w)
                /\ ret' = [op |-> "SwapchainInitialize", ok |-> r.ok, err |-> r.err,
                           n |-> a.dim[1], val |-> a.dim[2]]
    /\ UNCHANGED <<sync, halted, endCalls, caps, pc, frame, ctx>>

SwapRecreate ==
    /\ pc = "swap" /\ ~halted
    /\ MayBuild
    /\ \E dim \in Dims :
        \E d \in IF swap.mContext # "null" /\ dim[1] # 0 /\ dim[2] # 0
                 THEN Drivers(swap.mConfig) ELSE NoDriver(swap.mConfig) :
            LET r == Recreate(swap, Work, dim[1], dim[2], d.outcome,
                              Negotiated(swap.mConfig, caps), d.count, d.failAt) IN
                /\ swap' = r.sw
                /\ Commit(r.w)
                /\ ret' = [op |-> "Recreate", ok |-> r.ok, err |-> r.err,
                           n |-> dim[1], val |-> dim[2]]
    /\ UNCHANGED <<sync, halted, endCalls, caps, pc, frame, ctx>>

SwapShutdown ==
    /\ pc = "swap" /\ ~halted
    /\ LET r == SwapchainShutdown(swap, Work) IN
        /\ swap' = r.sw
        /\ Commit(r.w)
    /\ ret' = Ok("SwapchainShutdown", 0)
    /\ UNCHANGED <<sync, halted, endCalls, caps, pc, frame, ctx>>

\* The images the driver can hand out: those of the swapchain the manager names.
ImageIndices(sw, d) ==
    IF Children(d, sw.mSwapchain) = {} THEN {0}
    ELSE 0..(Cardinality(Children(d, sw.mSwapchain)) - 1)

SwapAcquireNextImage ==
    /\ pc = "swap" /\ ~halted
    /\ \E res \in VkAcquireResults, imageIndex \in ImageIndices(swap, dev) :
        /\ (swap.mContext = "null" \/ swap.mSwapchain = VK_NULL_HANDLE)
              => res = "VK_SUCCESS"
        /\ res \notin {"VK_SUCCESS", "VK_SUBOPTIMAL_KHR"} => imageIndex = 0
        /\ LET r == AcquireNextImage(swap, Work, VK_NULL_HANDLE, res, imageIndex) IN
            /\ Commit(r.w)
            /\ ret' = [op |-> "AcquireNextImage", ok |-> r.ok, err |-> r.err,
                       n |-> 0, val |-> r.val]
    /\ UNCHANGED <<sync, swap, halted, endCalls, caps, pc, frame, ctx>>

SwapPresent ==
    /\ pc = "swap" /\ ~halted
    /\ \E res \in VkPresentResults, imageIndex \in ImageIndices(swap, dev) :
        /\ (swap.mContext = "null" \/ swap.mSwapchain = VK_NULL_HANDLE)
              => res = "VK_SUCCESS"
        /\ LET r == Present(swap, Work, imageIndex, VK_NULL_HANDLE, res) IN
            /\ Commit(r.w)
            /\ ret' = [op |-> "Present", ok |-> r.ok, err |-> r.err, n |-> 0, val |-> 0]
    /\ UNCHANGED <<sync, swap, halted, endCalls, caps, pc, frame, ctx>>

\* The client submits rendering work for the GPU; no fence is attached.
SwapQueueSubmit ==
    /\ pc = "swap" /\ ~halted
    /\ Len(dev.pending) < MaxOutstanding
    /\ Commit(QueueSubmit(Work, VK_NULL_HANDLE, VK_NULL_HANDLE, VK_NULL_HANDLE, VK_NULL_HANDLE))
    /\ ret' = Ok("vkQueueSubmit", 0)
    /\ UNCHANGED <<sync, swap, halted, endCalls, caps, pc, frame, ctx>>

NextSwap ==
    \/ SwapInitialize
    \/ SwapRecreate
    \/ SwapShutdown
    \/ SwapAcquireNextImage
    \/ SwapPresent
    \/ SwapQueueSubmit
    \/ GpuComplete

SpecSwap == InitWith("swap") /\ [][NextSwap]_vars

----------------------------------------------------------------------------
\* The Testbed: InitializeVulkano, then Run's loop of DrawFrame, then Cleanup, with the
\* GPU running beside it. pc names the call the program makes next; an exception
\* (AssertResult, a failed submit) ends the program.

kWindowWidth == 1280

kWindowHeight == 720

VkSubmitResults == {"VK_SUCCESS", "VK_ERROR_DEVICE_LOST"}

Throw(at) == pc' = "done" /\ halted' = TRUE

\* InitializeVulkano, steps 4 and 5: the swapchain for the window, then the frame
\* synchronizer. main.cpp asks for 2 frames in flight; the loop is followed for every
\* count Initialize accepts.
LoopInitializeVulkano ==
    /\ pc = "boot" /\ ~halted
    /\ \E d \in Drivers(DefaultConfig), n \in MinFramesInFlight..MaxFramesInFlight :
        \E fail \in Failures("ctx", n) :
            LET r1 == SwapchainInitialize(swap, Work, "ctx", "surface", kWindowWidth,
                                          kWindowHeight, DefaultConfig, d.outcome,
                                          Negotiated(DefaultConfig, caps), d.count, d.failAt)
                r2 == Initialize(sync, r1.w, "ctx", n, fail[1], fail[2])
            IN IF ~r1.ok
               THEN /\ fail = <<0, 0>> /\ n = MinFramesInFlight
                    /\ swap' = r1.sw /\ sync' = sync
                    /\ Commit(r1.w)
                    /\ ret' = Unexpected("SwapchainInitialize", 0, r1.err)
                    /\ Throw("InitializeVulkano")
               ELSE /\ swap' = r1.sw /\ sync' = r2.s
                    /\ Commit(r2.w)
                    /\ ret' = IF r2.ok THEN Ok("Initialize", n)
                              ELSE Unexpected("Initialize", n, r2.err)
                    /\ IF r2.ok THEN pc' = "begin" /\ halted' = FALSE
                       ELSE Throw("InitializeVulkano")
    /\ UNCHANGED <<endCalls, caps, frame, ctx>>

\* DrawFrame: AssertResult(gFrameSync.BeginFrame()). The wait has no timeout, so the
\* call returns only once the fence is signaled or the device reports an error.
LoopBeginFrame ==
    /\ pc = "begin" /\ ~halted
    /\ frame.count < MaxLoopFrames
    /\ \E waitRes \in VkWaitResults, resetRes \in VkResetResults :
        /\ WaitFeasible(Work, GetCurrentFence(sync), "UINT64_MAX", waitRes)
        /\ waitRes # "VK_SUCCESS" => resetRes = "VK_SUCCESS"
        /\ LET r == BeginFrame(sync, Work, waitRes, resetRes) IN
            /\ Commit(r.w)
            /\ ret' = IF r.ok THEN Ok("BeginFrame", 0) ELSE Unexpected("BeginFrame", 0, r.err)
            /\ IF r.ok THEN pc' = "acquire" /\ halted' = FALSE ELSE Throw("BeginFrame")
    /\ UNCHANGED <<sync, swap, endCalls, caps, frame, ctx>>

\* The images the presentation engine has handed back: an image is acquired again
\* only after the present that queued it has been consumed.
ReleasedImages(sw, d) ==
    ImageIndices(sw, d) \ {d.presents[i].image : i \in 1..Len(d.presents)}

\* DrawFrame: the image is acquired, or the frame is skipped.
LoopAcquireNextImage ==
    /\ pc = "acquire" /\ ~halted
    /\ \E res \in VkAcquireResults, imageIndex \in ImageIndices(swap, dev) :
        /\ res \notin {"VK_SUCCESS", "VK_SUBOPTIMAL_KHR"} => imageIndex = 0
        /\ res \in {"VK_SUCCESS", "VK_SUBOPTIMAL_KHR"} => imageIndex \in ReleasedImages(swap, dev)
        /\ LET r == AcquireNextImage(swap, Work, GetCurrentImageAvailableSemaphore(sync),
                                     res, imageIndex) IN
            /\ Commit(r.w)
            /\ ret' = [op |-> "AcquireNextImage", ok |-> r.ok, err |-> r.err,
                       n |-> 0, val |-> r.val]
            /\ frame' = [frame EXCEPT !.imageIndex = r.val]
            /\ pc' = IF r.ok THEN "submit" ELSE "end"
    /\ UNCHANGED <<sync, swap, halted, endCalls, caps, ctx>>

\* DrawFrame: the command buffer is recorded and submitted with the slot's fence.
\* Signalling a semaphore that a queued present still waits on is outside the valid
\* usage of vkQueueSubmit: the frame may go on, or the program may stop there.
LoopQueueSubmit ==
    /\ pc = "submit" /\ ~halted
    /\ \E res \in VkSubmitResults :
        LET w1 == RecordCommandBuffer(Work, GetCurrentCommandBuffer(sync))
            w2 == QueueSubmit(w1, GetCurrentCommandBuffer(sync),
                              GetCurrentImageAvailableSemaphore(sync),
                              GetCurrentRenderFinishedSemaphore(sync),
                              GetCurrentFence(sync))
        IN
        IF res = "VK_SUCCESS"
        THEN /\ ret' = Ok("vkQueueSubmit", 0)
             /\ pc' = "present"
             /\ IF GetCurrentRenderFinishedSemaphore(sync) \in PresentWaits(dev)
                THEN Commit(FirstFault(w2, "semaphore_in_use")) /\ halted' \in BOOLEAN
                ELSE Commit(w2) /\ halted' = FALSE
        ELSE /\ Commit(CallRes(w1, "vkQueueSubmit", GetCurrentFence(sync), FALSE))
             /\ ret' = Unexpected("vkQueueSubmit", 0, "Failed to submit draw command buffer")
             /\ Throw("DrawFrame")
    /\ UNCHANGED <<sync, swap, endCalls, caps, frame, ctx>>

\* DrawFrame: the image is presented; a failure is left for the next frame.
LoopPresent ==
    /\ pc = "present" /\ ~halted
    /\ \E res \in VkPresentResults :
        LET r == Present(swap, Work, frame.imageIndex,
                         GetCurrentRenderFinishedSemaphore(sync), res) IN
            /\ Commit(r.w)
            /\ ret' = [op |-> "Present", ok |-> r.ok, err |-> r.err, n |-> 0, val |-> 0]
    /\ pc' = "end"
    /\ UNCHANGED <<sync, swap, halted, endCalls, caps, frame, ctx>>

\* DrawFrame: gFrameSync.EndFrame(), at the end of the frame or to skip it.
LoopEndFrame ==
    /\ pc = "end" /\ ~halted
    /\ sync' = EndFrame(sync)
    /\ Commit(Work)
    /\ ret' = Ok("EndFrame", 0)
    /\ endCalls' = endCalls + 1
    /\ frame' = [frame EXCEPT !.count = @ + 1]
    /\ pc' = "begin"
    /\ UNCHANGED <<swap, halted, caps, ctx>>

\* The window closes: Run waits for the device, Cleanup shuts both objects down.
LoopCleanup ==
    /\ pc = "begin" /\ ~halted
    /\ LET w1 == WaitIdle(Work)
           r1 == Shutdown(sync, w1)
           r2 == SwapchainShutdown(swap, r1.w)
       IN /\ sync' = r1.s
          /\ swap' = r2.sw
          /\ Commit(r2.w)
    /\ ret' = Ok("Cleanup", 0)
    /\ pc' = "done"
    /\ UNCHANGED <<halted, endCalls, caps, frame, ctx>>

NextLoop ==
    \/ LoopInitializeVulkano
    \/ LoopBeginFrame
    \/ LoopAcquireNextImage
    \/ LoopQueueSubmit
    \/ LoopPresent
    \/ LoopEndFrame
    \/ LoopCleanup
    \/ GpuComplete
    \/ PresentationEngine

SpecLoop == InitWith("boot") /\ [][NextLoop]_vars

----------------------------------------------------------------------------
\* A client calling VulkanContext freely (pc = "context").

FailAts == SeqToSet(CreateDeviceSteps) \cup {"none"}

ContextResult(op, r) == [op |-> op, ok |-> r.ok, err |-> r.err, n |-> 0, val |-> 0]

CtxCreateInstance ==
    /\ pc = "context" /\ ~halted
    /\ \E enableValidation \in BOOLEAN, built \in BOOLEAN :
        LET r == CreateInstance(ctx, Work, enableValidation, built) IN
        /\ ctx' = r.c
        /\ Commit(r.w)
        /\ ret' = ContextResult("CreateInstance", r)
    /\ UNCHANGED <<sync, swap, halted, endCalls, caps, pc, frame>>

CtxCreateDevice ==
    /\ pc = "context" /\ ~halted
    /\ \E surface \in Surfaces, failAt \in FailAts, found \in QueueLookups :
        LET r == CreateDevice(ctx, Work, surface, failAt, found) IN
        /\ ctx' = r.c
        /\ Commit(r.w)
        /\ ret' = ContextResult("CreateDevice", r)
    /\ UNCHANGED <<sync, swap, halted, endCalls, caps, pc, frame>>

CtxInitialize ==
    /\ pc = "context" /\ ~halted
    /\ \E enableValidation \in BOOLEAN, built \in BOOLEAN, surface \in Surfaces,
          failAt \in FailAts, found \in QueueLookups :
        LET r == ContextInitialize(ctx, Work, enableValidation, built, surface, failAt, found) IN
        /\ ctx' = r.c
        /\ Commit(r.w)
        /\ ret' = ContextResult("ContextInitialize", r)
    /\ UNCHANGED <<sync, swap, halted, endCalls, caps, pc, frame>>

CtxShutdown ==
    /\ pc = "context" /\ ~halted
    /\ LET r == ContextShutdown(ctx, Work) IN
        /\ ctx' = r.c
        /\ Commit(r.w)
    /\ ret' = Ok("ContextShutdown", 0)
    /\ UNCHANGED <<sync, swap, halted, endCalls, caps, pc, frame>>

NextContext ==
    \/ CtxCreateInstance
    \/ CtxCreateDevice
    \/ CtxInitialize
    \/ CtxShutdown

SpecContext == InitWith("context") /\ [][NextContext]_vars

----------------------------------------------------------------------------
\* Properties

CreateCalls ==
    {"vkCreateFence", "vkCreateSemaphore", "vkCreateCommandPool", "vkAllocateCommandBuffers"}

\* The handles the last operation created.
CreatedBy(calls) == {calls[i].h : i \in {j \in 1..Len(calls) : calls[j].fn \in CreateCalls /\ calls[j].ok}}

SomeCallFailed(calls) == \E i \in 1..Len(calls) : ~calls[i].ok

LoopRunning == pc \in {"begin", "acquire", "submit", "present", "end"}

\* C1: a BeginFrame that returns success was called with the current slot's fence
\* signaled and with no submission that uses this fence still outstanding.
C1_Backpressure ==
    [][(ret'.op = "BeginFrame" /\ ret'.ok) =>
          /\ IsInitialized(sync)
          /\ GetCurrentFence(sync) \in dev.signaled
          /\ GetCurrentFence(sync) \notin PendingFences(dev)]_vars

\* A slot that has come round again is begun while another slot's work is outstanding.
C1_Witness ==
    /\ ret.op = "BeginFrame" /\ ret.ok
    /\ IsInitialized(sync)
    /\ endCalls >= GetFramesInFlight(sync)
    /\ Len(dev.pending) > 0

\* C2: while the frame loop runs on N slots, at most N submissions are outstanding.
C2_OutstandingAtMostN ==
    LoopRunning => Len(dev.pending) <= GetFramesInFlight(sync)

\* Every one of several slots has its submission outstanding at the top of the loop.
C2_Witness ==
    /\ pc = "begin"
    /\ GetFramesInFlight(sync) >= 2
    /\ Len(dev.pending) = GetFramesInFlight(sync)

\* C3: on an initialized synchronizer the frame index is the number of EndFrame calls
\* since Initialize, modulo the number of slots.
C3_RoundRobin ==
    IsInitialized(sync) => sync.mCurrentFrameIndex = endCalls % GetFramesInFlight(sync)

\* Two slots, nine EndFrame calls: the tenth frame starts at index 1.
C3_Witness ==
    /\ ret.op = "EndFrame"
    /\ IsInitialized(sync)
    /\ GetFramesInFlight(sync) = 2
    /\ endCalls = 9
    /\ sync.mCurrentFrameIndex = 1

\* C4: whenever the frame loop is about to call BeginFrame, the fence it will wait on is
\* signaled or some outstanding submission will signal it.
C4_NoOrphanedWait ==
    (pc = "begin" /\ IsInitialized(sync)) =>
        GetCurrentFence(sync) \in dev.signaled \cup PendingFences(dev)

\* C5: Initialize succeeds only for a count in 1..4 and then leaves exactly that many
\* slots with distinct live fences and index 0; for a count in 1..4 it fails only for
\* an invalid context or a failed creation; for a count outside 1..4 it fails, makes no
\* device call and leaves synchronizer and device as they were.
C5_InitializeRange ==
    [][ret'.op = "Initialize" =>
          /\ ret'.ok =>
                /\ ret'.n \in 1..4
                /\ IsInitialized(sync')
                /\ GetFramesInFlight(sync') = ret'.n
                /\ sync'.mCurrentFrameIndex = 0
                /\ Cardinality({sync'.mFrames[i].inFlightFence : i \in 1..ret'.n}) = ret'.n
                /\ \A i \in 1..ret'.n : FrameHandles(sync'.mFrames[i]) \subseteq dev'.live
          /\ (ret'.n \in 1..4 /\ ~ret'.ok) =>
                ret'.err = "Invalid or uninitialized context" \/ SomeCallFailed(log')
          /\ ret'.n \notin 1..4 =>
                ~ret'.ok /\ log' = <<>> /\ sync' = sync /\ dev' = dev]_vars

\* An initialized synchronizer has refused a count of 5 and still has its slots.
C5_Witness ==
    /\ ret.op = "Initialize" /\ ~ret.ok /\ ret.n = 5
    /\ IsInitialized(sync)

\* C6: when a creation fails inside Initialize, no object created during the call is
\* live afterwards, no slot remains and the synchronizer is not initialized.
C6_AtomicRollback ==
    [][(ret'.op = "Initialize" /\ ~ret'.ok /\ SomeCallFailed(log')) =>
          /\ CreatedBy(log') \cap dev'.live = {}
          /\ sync'.mFrames = <<>>
          /\ ~IsInitialized(sync')]_vars

\* The failure came in a later slot, after a whole slot and more had been created.
C6_Witness ==
    /\ ret.op = "Initialize" /\ ~ret.ok /\ SomeCallFailed(log)
    /\ Cardinality(CreatedBy(log)) >= 7

\* C7: a BeginFrame that fails leaves the signaled fences, the recorded command buffers
\* and the synchronizer as they were.
C7_FailedBeginFrameKeepsState ==
    [][(ret'.op = "BeginFrame" /\ ~ret'.ok) =>
          /\ dev'.signaled = dev.signaled
          /\ dev'.recorded = dev.recorded
          /\ sync' = sync]_vars

\* C8: a Recreate that fails leaves handle, images, views, format, extent and present
\* mode as they were, and the views it had are still live.
C8_FailedRecreateKeepsState ==
    [][(ret'.op = "Recreate" /\ ~ret'.ok) =>
          /\ swap'.mSwapchain = swap.mSwapchain
          /\ swap'.mImages = swap.mImages
          /\ swap'.mImageViews = swap.mImageViews
          /\ swap'.mFormat = swap.mFormat
          /\ swap'.mExtent = swap.mExtent
          /\ swap'.mPresentMode = swap.mPresentMode
          /\ SeqToSet(swap.mImageViews) \cap dev.live \subseteq dev'.live]_vars

\* C9: no EndFrame call takes a remainder by zero.
C9_EndFrameDefined == fault # "division_by_zero"

\* C10: there are as many image views as images, and none of either while the
\* swapchain handle is null.
C10_ViewsMatchImages ==
    /\ Len(swap.mImageViews) = Len(swap.mImages)
    /\ swap.mSwapchain = VK_NULL_HANDLE => swap.mImages = <<>> /\ swap.mImageViews = <<>>

SwapCreateCalls == {"vkCreateSwapchainKHR", "vkCreateImageView"}

\* The swapchains and image views the last operation created.
SwapCreatedBy(calls) ==
    {calls[i].h : i \in {j \in 1..Len(calls) : calls[j].fn \in SwapCreateCalls /\ calls[j].ok}}

\* C11: on a manager without a swapchain, Recreate, AcquireNextImage and Present fail,
\* create nothing and leave it without one; only Initialize gives a manager a swapchain
\* and only Shutdown takes it away.
C11_StateMachine ==
    [][/\ (~SwapchainIsInitialized(swap)
             /\ ret'.op \in {"Recreate", "AcquireNextImage", "Present"}) =>
                /\ ~ret'.ok
                /\ ~SwapchainIsInitialized(swap')
                /\ SwapCreatedBy(log') = {}
       /\ (~SwapchainIsInitialized(swap) /\ SwapchainIsInitialized(swap')) =>
                ret'.op = "SwapchainInitialize"
       /\ (SwapchainIsInitialized(swap) /\ ~SwapchainIsInitialized(swap')) =>
                ret'.op = "SwapchainShutdown"]_vars

\* C12: a Recreate with a zero dimension, or on a manager no build has ever succeeded
\* on (its format is still undefined), fails and makes no device call.
C12_RecreateRejects ==
    [][(ret'.op = "Recreate"
          /\ (ret'.n = 0 \/ ret'.val = 0 \/ swap.mFormat = "VK_FORMAT_UNDEFINED")) =>
             /\ ~ret'.ok
             /\ log' = <<>>
             /\ dev' = dev]_vars

\* The precondition violations of Initialize.
InvalidArgs(context, surface, width, height) ==
    ~ContextOk(context) \/ surface = "null" \/ width = 0 \/ height = 0

\* C13: in every state, an Initialize whose context is null or uninitialized, whose
\* surface is null or whose width or height is zero fails, makes no device call and
\* leaves every field of the manager and the device as they are, whatever the driver
\* would have answered.
C13_InitializeRejects ==
    \A context \in Contexts, surface \in Surfaces, dim \in Dims, config \in Configs :
        InvalidArgs(context, surface, dim[1], dim[2]) =>
            \A d \in Drivers(config) :
                LET r == SwapchainInitialize(swap, Work, context, surface, dim[1], dim[2],
                                             config, d.outcome, Negotiated(config, caps),
                                             d.count, d.failAt)
                IN ~r.ok /\ r.sw = swap /\ r.w = Work

\* A manager that holds a swapchain has just refused a null surface.
C13_Witness ==
    /\ ret.op = "SwapchainInitialize" /\ ~ret.ok
    /\ ret.err = "Invalid surface provided"
    /\ log = <<>>
    /\ SwapchainIsInitialized(swap)

\* C14: an Initialize that fails after the swapchain was built leaves no swapchain or
\* view it created alive and leaves the manager without a swapchain handle.
C14_InitializeTearsDown ==
    [][(ret'.op = "SwapchainInitialize" /\ ~ret'.ok /\ SwapCreatedBy(log') # {}) =>
          /\ SwapCreatedBy(log') \cap dev'.live = {}
          /\ ~SwapchainIsInitialized(swap')
          /\ swap'.mSwapchain = VK_NULL_HANDLE]_vars

\* Positions in a call list of the calls named fn.
CallsOf(calls, fn) == {i \in 1..Len(calls) : calls[i].fn = fn}

\* C15: in every Recreate, each destruction of a swapchain comes after a successful
\* creation of one in the same call, the destroyed swapchain is the previous one and it
\* was handed to the builder before that creation; a Recreate whose build fails leaves
\* the previous swapchain alive and destroys no swapchain.
C15_RecreateOrdering ==
    [][ret'.op = "Recreate" =>
          /\ \A i \in CallsOf(log', "vkDestroySwapchainKHR") :
                /\ log'[i].h = swap.vkbSwapchain
                /\ \E j \in CallsOf(log', "vkCreateSwapchainKHR") :
                      /\ j < i /\ log'[j].ok
                      /\ log'[j].h \in dev'.live
                      /\ \E k \in CallsOf(log', "set_old_swapchain") :
                            k < j /\ log'[k].h = swap.vkbSwapchain
          /\ (\E j \in CallsOf(log', "vkCreateSwapchainKHR") : ~log'[j].ok) =>
                /\ CallsOf(log', "vkDestroySwapchainKHR") = {}
                /\ swap.mSwapchain \in dev.live => swap.mSwapchain \in dev'.live
          /\ (ret'.ok /\ swap.vkbSwapchain # VK_NULL_HANDLE) =>
                /\ CallsOf(log', "vkDestroySwapchainKHR") # {}
                /\ swap.vkbSwapchain \notin dev'.live]_vars

\* A successful Recreate has replaced a swapchain: the old one is gone, the new one lives.
C15_Witness ==
    /\ ret.op = "Recreate" /\ ret.ok
    /\ CallsOf(log, "vkDestroySwapchainKHR") # {}
    /\ swap.mSwapchain \in dev.live

\* Device calls that create or destroy a presentation resource.
PresentationCalls ==
    {"vkCreateSwapchainKHR", "vkDestroySwapchainKHR", "vkCreateImageView", "vkDestroyImageView"}

\* C16: in every Recreate that passes its argument checks, the device idle-wait returns
\* before any image view or swapchain is destroyed or created: every submission has
\* completed by then and none is outstanding when the call ends.
C16_RecreateSerializes ==
    [][(ret'.op = "Recreate" /\ log' # <<>>) =>
          /\ \E k \in CallsOf(log', "vkDeviceWaitIdle") :
                /\ \A i \in 1..Len(log') : log'[i].fn \in PresentationCalls => k < i
                /\ \A i \in CallsOf(log', "completed") : i < k
                /\ Cardinality(CallsOf(log', "completed")) = Len(dev.pending)
          /\ dev'.pending = <<>>]_vars

\* A Recreate met outstanding work, waited it out and then replaced views and swapchain.
C16_Witness ==
    /\ ret.op = "Recreate" /\ ret.ok
    /\ CallsOf(log, "completed") # {}
    /\ CallsOf(log, "vkDestroyImageView") # {}
    /\ CallsOf(log, "vkDestroySwapchainKHR") # {}

\* The manager can acquire and present: it has a context and a swapchain.
Ready(sw) == sw.mContext # "null" /\ SwapchainIsInitialized(sw)

\* What a caller sees of a Result: whether it holds a value, the value, the error.
Returned(r) == <<r.ok, r.err, IF "val" \in DOMAIN r THEN r.val ELSE 0>>

\* C17: on a manager with a swapchain, AcquireNextImage returns the index on success
\* and on a suboptimal result, fails on an out-of-date result, and what it returns for
\* a suboptimal result differs from what it returns for a success with the same index.
C17_AcquireDistinguishes ==
    Ready(swap) =>
        \A imageIndex \in ImageIndices(swap, dev) :
            LET success == AcquireNextImage(swap, Work, VK_NULL_HANDLE, "VK_SUCCESS", imageIndex)
                suboptimal == AcquireNextImage(swap, Work, VK_NULL_HANDLE, "VK_SUBOPTIMAL_KHR", imageIndex)
                stale == AcquireNextImage(swap, Work, VK_NULL_HANDLE, "VK_ERROR_OUT_OF_DATE_KHR", imageIndex)
            IN /\ success.ok /\ success.val = imageIndex
               /\ suboptimal.ok /\ suboptimal.val = imageIndex
               /\ ~stale.ok
               /\ Returned(suboptimal) # Returned(success)

\* C18: on a manager with a swapchain, Present succeeds exactly when the driver queued
\* the image (success or suboptimal), returns the stale-surface failure exactly when
\* the driver reports out-of-date, and another failure for every other error.
C18_PresentOutcomes ==
    Ready(swap) =>
        \A imageIndex \in ImageIndices(swap, dev), res \in VkPresentResults :
            LET r == Present(swap, Work, imageIndex, VK_NULL_HANDLE, res) IN
            /\ r.ok <=> res \in {"VK_SUCCESS", "VK_SUBOPTIMAL_KHR"}
            /\ (~r.ok /\ r.err = "Swapchain out of date - needs recreation")
                   <=> res = "VK_ERROR_OUT_OF_DATE_KHR"

\* C19: a fence-wait timeout in WaitForFrame, and a timeout or not-ready result in
\* AcquireNextImage, fail with a value that no other device error of the same
\* operation produces.
C19_TimeoutsDistinct ==
    /\ IsInitialized(sync) =>
          LET timedOut == WaitForFrame(sync, Work, "finite", "VK_TIMEOUT")
              lost == WaitForFrame(sync, Work, "finite", "VK_ERROR_DEVICE_LOST")
          IN ~timedOut.ok /\ ~lost.ok /\ timedOut.err # lost.err
    /\ Ready(swap) =>
          \A transient \in {"VK_TIMEOUT", "VK_NOT_READY"},
             other \in {"VK_ERROR_OUT_OF_DATE_KHR", "VK_ERROR_DEVICE_LOST"} :
              LET t == AcquireNextImage(swap, Work, VK_NULL_HANDLE, transient, 0)
                  o == AcquireNextImage(swap, Work, VK_NULL_HANDLE, other, 0)
              IN ~t.ok /\ ~o.ok /\ Returned(t) # Returned(o)

\* The device as the next call finds it once the fence has become signaled.
OnceSignaled(d, fence) == [Work EXCEPT !.signaled = d.signaled \cup {fence}]

\* C20: a WaitForFrame or BeginFrame that fails with a timeout has made one device
\* call, the wait: no fence and no command buffer was reset, the device and the frame
\* index are as before, and once the fence is signaled a wait on the same slot
\* succeeds. BeginFrame returns the timeout of its wait without resetting anything.
C20_TimeoutRetrySafe ==
    [][/\ (ret'.op \in {"WaitForFrame", "BeginFrame"} /\ ~ret'.ok
              /\ ret'.err = "Timeout waiting for fence") =>
            /\ \A i \in 1..Len(log') : log'[i].fn = "vkWaitForFences"
            /\ dev' = dev
            /\ sync' = sync
            /\ GetCurrentFence(sync') \in dev'.live
            /\ \A timeout \in Timeouts :
                  LET again == OnceSignaled(dev', GetCurrentFence(sync')) IN
                  /\ WaitFeasible(again, GetCurrentFence(sync'), timeout, "VK_SUCCESS")
                  /\ WaitForFrame(sync', again, timeout, "VK_SUCCESS").ok
                  /\ BeginFrame(sync', again, "VK_SUCCESS", "VK_SUCCESS").ok
       /\ IsInitialized(sync) =>
            LET b == BeginFrame(sync, Work, "VK_TIMEOUT", "VK_SUCCESS") IN
            /\ ~b.ok /\ b.err = "Timeout waiting for fence"
            /\ \A i \in 1..Len(b.w.log) : b.w.log[i].fn = "vkWaitForFences"
            /\ b.w.signaled = dev.signaled /\ b.w.recorded = dev.recorded]_vars

\* A wait timed out on a slot whose submission is still outstanding.
C20_Witness ==
    /\ ret.op = "WaitForFrame" /\ ~ret.ok /\ ret.err = "Timeout waiting for fence"
    /\ GetCurrentFence(sync) \in PendingFences(dev)
    /\ sync.mCurrentFrameIndex > 0

\* The device as the next call of the client finds it after a call that left it as w.
ThenWork(w) == [w EXCEPT !.log = <<>>, !.taken = w.live]

\* Device calls that destroy an object.
DestroyCalls ==
    {"vkDestroyFence", "vkDestroySemaphore", "vkDestroyCommandPool",
     "vkDestroyImageView", "vkDestroySwapchainKHR"}

\* C21: in every state, a second Shutdown right after a first one, of the synchronizer
\* and of the swapchain manager alike, destroys nothing, makes no invalid call and
\* leaves the component and the device as the first call left them.
C21_ShutdownIdempotent ==
    /\ LET first == Shutdown(sync, Work)
           second == Shutdown(first.s, ThenWork(first.w))
       IN /\ second.s = first.s
          /\ \A i \in 1..Len(second.w.log) : second.w.log[i].fn \notin DestroyCalls
          /\ second.w.live = first.w.live
          /\ second.w.fault = first.w.fault
    /\ LET first == SwapchainShutdown(swap, Work)
           second == SwapchainShutdown(first.sw, ThenWork(first.w))
       IN /\ second.sw = first.sw
          /\ \A i \in 1..Len(second.w.log) : second.w.log[i].fn \notin DestroyCalls
          /\ second.w.live = first.w.live
          /\ second.w.fault = first.w.fault

\* Both components hold objects, with work outstanding, when Shutdown is applied.
C21_Witness ==
    /\ IsInitialized(sync) /\ GetFramesInFlight(sync) > 1
    /\ SwapchainIsInitialized(swap) /\ swap.mImageViews # <<>>
    /\ dev.pending # <<>>

\* The handles of every slot of a synchronizer.
SlotHandles(s) == UNION {FrameHandles(s.mFrames[i]) : i \in 1..Len(s.mFrames)}

\* C22: in every Shutdown of the synchronizer that destroys something, the device
\* idle-wait has returned before the first destruction: every submission outstanding
\* at the call has completed by then, and the slots' objects are gone afterwards with
\* no work left that uses them.
C22_ShutdownWaitsFirst ==
    [][(ret'.op = "Shutdown" /\ sync.mContext # "null") =>
          /\ \E k \in CallsOf(log', "vkDeviceWaitIdle") :
                /\ \A i \in 1..Len(log') : log'[i].fn \in DestroyCalls => k < i
                /\ \A i \in CallsOf(log', "completed") : i < k
                /\ Cardinality(CallsOf(log', "completed")) = Len(dev.pending)
          /\ dev'.pending = <<>>
          /\ SlotHandles(sync) \cap dev'.live = {}]_vars

\* A Shutdown met work outstanding on one of its slots, waited it out and destroyed
\* the slots.
C22_Witness ==
    /\ ret.op = "Shutdown"
    /\ \E i \in CallsOf(log, "completed") : log[i].h # VK_NULL_HANDLE
    /\ CallsOf(log, "vkDestroyFence") # {}
    /\ CallsOf(log, "vkDestroyCommandPool") # {}

\* The slot the synchronizer's frame index names, read from the slot list itself.
Slot(s) == s.mFrames[s.mCurrentFrameIndex + 1]

\* Some slot whose fence, image-available and render-finished semaphore the submission uses.
OnOneSlot(s, p) ==
    \E i \in 1..Len(s.mFrames) :
        /\ p.fence = s.mFrames[i].inFlightFence
        /\ p.wait = s.mFrames[i].imageAvailableSemaphore
        /\ p.signal = s.mFrames[i].renderFinishedSemaphore
        /\ p.cmd = s.mFrames[i].commandBuffer

\* No two slots, and no two fields of a slot, share a handle.
SlotsDistinct(s) ==
    /\ \A i \in 1..Len(s.mFrames) : Cardinality(FrameHandles(s.mFrames[i])) = 5
    /\ \A i, j \in 1..Len(s.mFrames) :
          i # j => FrameHandles(s.mFrames[i]) \cap FrameHandles(s.mFrames[j]) = {}

\* C23: in the frame loop the acquire signals the current slot's image-available
\* semaphore, the submission waits on it and signals the same slot's render-finished
\* semaphore and fence, the present waits on that render-finished semaphore, the slot
\* does not change in between, and every outstanding submission uses the fence and the
\* semaphores of one and the same slot.
C23_SignalChain ==
    [][/\ ret'.op \in {"AcquireNextImage", "vkQueueSubmit", "Present"} =>
            sync' = sync /\ SlotsDistinct(sync)
       /\ ret'.op = "AcquireNextImage" =>
            \A i \in CallsOf(log', "vkAcquireNextImageKHR") :
                log'[i].h = Slot(sync).imageAvailableSemaphore
       /\ (ret'.op = "vkQueueSubmit" /\ ret'.ok) =>
            /\ Len(dev'.pending) = Len(dev.pending) + 1
            /\ LET p == dev'.pending[Len(dev'.pending)] IN
               /\ p.wait = Slot(sync).imageAvailableSemaphore
               /\ p.signal = Slot(sync).renderFinishedSemaphore
               /\ p.fence = Slot(sync).inFlightFence
       /\ ret'.op = "Present" =>
            /\ CallsOf(log', "vkQueuePresentKHR") # {}
            /\ \A i \in CallsOf(log', "vkQueuePresentKHR") :
                log'[i].h = Slot(sync).renderFinishedSemaphore
       /\ \A i \in 1..Len(dev'.pending) : OnOneSlot(sync', dev'.pending[i])]_vars

\* On the second slot, the present waited on the semaphore that the still outstanding
\* submission of the frame signals.
C23_Witness ==
    /\ LoopRunning /\ ret.op = "Present" /\ ret.ok
    /\ sync.mCurrentFrameIndex = 1
    /\ \E i \in 1..Len(dev.pending) :
          /\ dev.pending[i].signal = log[1].h
          /\ dev.pending[i].fence = Slot(sync).inFlightFence

\* C24: on a synchronizer that is not initialized, BeginFrame and WaitForFrame return
\* a failure and ResetFence does nothing: none of them makes a device call, reads a
\* slot of the empty list or uses the absent context.
C24_RejectsUninitialized ==
    [][(~IsInitialized(sync) /\ ret'.op \in {"BeginFrame", "WaitForFrame", "ResetFence"}) =>
          /\ log' = <<>>
          /\ dev' = dev /\ sync' = sync
          /\ fault' = fault
          /\ ~halted'
          /\ ret'.op # "ResetFence" => ~ret'.ok]_vars

\* The failures CreateDevice returns when one of its steps fails.
DeviceStepErrors ==
    {"Failed to select physical device", "Failed to create device",
     "Failed to get graphics queue", "Failed to get graphics queue family index",
     "Failed to create VMA allocator"}

\* C25: the context becomes initialized only in a CreateDevice (or Initialize) that
\* returns success, and after a CreateDevice that fails at one of its steps
\* IsInitialized() is false.
C25_ContextTruthful ==
    [][/\ (~ContextIsInitialized(ctx) /\ ContextIsInitialized(ctx')) =>
              ret'.op \in {"CreateDevice", "ContextInitialize"} /\ ret'.ok
       /\ (ret'.op = "CreateDevice" /\ ~ret'.ok /\ ret'.err \in DeviceStepErrors) =>
              ~ContextIsInitialized(ctx')]_vars

\* The stale-surface failure of AcquireNextImage and Present.
StaleSurface == "Swapchain out of date - needs recreation"

\* C26 as stated: a Recreate(w, h) that succeeds after AcquireNextImage reported a
\* stale surface leaves a manager with a swapchain whose extent is exactly {w, h}.
C26_RecreateExtentExact ==
    [][(/\ ret.op = "AcquireNextImage" /\ ~ret.ok /\ ret.err = StaleSurface
        /\ ret'.op = "Recreate" /\ ret'.ok) =>
          /\ Ready(swap')
          /\ swap'.mExtent = <<ret'.n, ret'.val>>]_vars

\* C26 amended: every Recreate(w, h) that succeeds, after a stale acquire or not,
\* leaves a manager with a swapchain whose extent is the one the surface decides: its
\* current extent if it fixes one, else {w, h} brought within the surface's limits,
\* which is {w, h} itself when the limits allow it.
C26_RecreateExtentOfSurface ==
    [][(ret'.op = "Recreate" /\ ret'.ok) =>
          /\ Ready(swap')
          /\ caps.fixesExtent => swap'.mExtent = caps.currentExtent
          /\ ~caps.fixesExtent =>
                \A k \in 1..2 :
                    LET asked == <<ret'.n, ret'.val>>[k]
                        lo == caps.minImageExtent[k]
                        hi == caps.maxImageExtent[k]
                    IN /\ lo <= swap'.mExtent[k] /\ swap'.mExtent[k] <= hi
                       /\ (lo <= asked /\ asked <= hi) => swap'.mExtent[k] = asked
                       /\ asked > hi => swap'.mExtent[k] = hi]_vars

\* A Recreate(1024, 768) on a surface that leaves the extent open gave that extent to
\* a swapchain that had another one.
C26_Witness ==
    /\ ret.op = "Recreate" /\ ret.ok /\ ret.n = 1024 /\ ret.val = 768
    /\ ~caps.fixesExtent
    /\ Ready(swap) /\ swap.mExtent = <<1024, 768>>

\* The fallbacks both builders are given; every format of the model comes with the
\* sRGB-nonlinear color space.
FallbackFormats == {"VK_FORMAT_B8G8R8A8_SRGB", "VK_FORMAT_R8G8B8A8_SRGB"}

FallbackPresentModes == {"VK_PRESENT_MODE_FIFO_KHR"}

\* The preferred format is not supported while a fallback format is.
FormatFallsBack(config, surfaceCaps) ==
    /\ config.preferredFormat \notin SeqToSet(surfaceCaps.formats)
    /\ FallbackFormats \cap SeqToSet(surfaceCaps.formats) # {}

\* The preferred present mode is not supported while the fallback mode is.
PresentModeFallsBack(config, surfaceCaps) ==
    /\ config.preferredPresentMode \notin surfaceCaps.presentModes
    /\ FallbackPresentModes \cap surfaceCaps.presentModes # {}

CreatedAt(calls) ==
    {i \in 1..Len(calls) :
        /\ calls[i].ok
        /\ calls[i].fn \in {"vkCreateFence", "vkCreateSemaphore", "vkCreateCommandPool"}}

\* Two creations belong to one slot when no slot was completed between them.
SameSlot(calls, i, j) ==
    \A k \in i..j : ~(calls[k].fn = "vkAllocateCommandBuffers" /\ calls[k].ok)

\* Where the object created at position i is destroyed later in the same call list.
DestroyedAt(calls, i) ==
    {d \in (i + 1)..Len(calls) : calls[d].fn \in DestroyCalls /\ calls[d].h = calls[i].h}

\* C28: of two objects of one slot that a call created and destroyed, the one created
\* later is destroyed first; the slots a Shutdown destroys go pool, render-finished,
\* image-available, fence; and where image views and a swapchain are destroyed in one
\* call, every view goes before the swapchain.
C28_ReverseOrderTeardown ==
    [][/\ \A i, j \in CreatedAt(log') :
            (i < j /\ SameSlot(log', i, j)) =>
                \A di \in DestroyedAt(log', i), dj \in DestroyedAt(log', j) : dj < di
       /\ \A v \in CallsOf(log', "vkDestroyImageView"),
             s \in CallsOf(log', "vkDestroySwapchainKHR") : v < s
       /\ ret'.op = "Shutdown" =>
            \A k \in 1..Len(sync.mFrames), p \in CallsOf(log', "vkDestroyCommandPool"),
               f \in CallsOf(log', "vkDestroyFence") :
                (log'[p].h = sync.mFrames[k].commandPool
                    /\ log'[f].h = sync.mFrames[k].inFlightFence) => p < f]_vars

\* The device d as a call finds it.
WorkOf(d, f) ==
    [live |-> d.live, owned |-> d.owned, signaled |-> d.signaled, pending |-> d.pending,
     recorded |-> d.recorded, presents |-> d.presents, taken |-> d.live,
     log |-> <<>>, fault |-> f]

\* The next k frames, begun and ended with nothing submitted: every BeginFrame finds
\* its fence signaled, so that its wait returns at once, and succeeds.
RECURSIVE FramesDoNotBlock(_, _, _)
FramesDoNotBlock(s, w, k) ==
    IF k = 0 THEN TRUE
    ELSE /\ GetCurrentFence(s) \in w.signaled
         /\ GetCurrentFence(s) \notin PendingFences(w)
         /\ WaitFeasible(w, GetCurrentFence(s), "UINT64_MAX", "VK_SUCCESS")
         /\ LET b == BeginFrame(s, w, "VK_SUCCESS", "VK_SUCCESS") IN
            b.ok /\ FramesDoNotBlock(EndFrame(s), ThenWork(b.w), k - 1)

\* C29: after every successful Initialize with N slots, the fence of each slot is
\* signaled and the first BeginFrame on each of the N slots succeeds without waiting,
\* with no work submitted.
C29_FirstFramesDoNotBlock ==
    [][(ret'.op = "Initialize" /\ ret'.ok) =>
          /\ GetFramesInFlight(sync') = ret'.n
          /\ \A i \in 1..Len(sync'.mFrames) : sync'.mFrames[i].inFlightFence \in dev'.signaled
          /\ FramesDoNotBlock(sync', WorkOf(dev', fault'), ret'.n)]_vars

\* The fourth of four slots has just begun its first frame: every fence has been
\* reset and nothing was ever outstanding to signal one again.
C29_Witness ==
    /\ ret.op = "BeginFrame" /\ ret.ok
    /\ GetFramesInFlight(sync) = 4 /\ sync.mCurrentFrameIndex = 3 /\ endCalls = 3
    /\ dev.signaled = {} /\ dev.pending = <<>>

\* C30: in the frame loop, when a submission signals the current slot's render-finished
\* semaphore, no queued present still waits on that semaphore: the present of the
\* slot's previous use has consumed it, whatever the number of slots and of images.
C30_RenderFinishedNotPending ==
    [][(ret'.op = "vkQueueSubmit" /\ ret'.ok) =>
          GetCurrentRenderFinishedSemaphore(sync) \notin PresentWaits(dev)]_vars

\* C31: FrameSynchronizer leaks nothing: whatever calls came before (a second
\* Initialize on an initialized synchronizer included), once Shutdown returns every
\* fence, semaphore, command pool and command buffer the synchronizer created is
\* gone from the device, and none was destroyed twice.
C31_SyncLeaksNothing ==
    [][ret'.op = "Shutdown" =>
          /\ dev'.live = {}
          /\ fault' # "invalid_destroy"]_vars

\* C32: SwapchainManager leaks nothing: whatever calls came before (a second
\* Initialize on a ready manager, successful and failed Recreate calls), once
\* Shutdown returns every swapchain and every image view the manager created is gone
\* from the device, and none was destroyed twice.
C32_SwapLeaksNothing ==
    [][ret'.op = "SwapchainShutdown" =>
          /\ dev'.live = {}
          /\ fault' # "invalid_destroy"]_vars

\* C33: whenever the synchronizer is initialized, the current frame index is below the
\* number of slots, so the slot every current-slot accessor reads exists; this also
\* after an Initialize with fewer slots than before and after a failed Initialize.
C33_IndexInRange ==
    IsInitialized(sync) =>
        /\ sync.mCurrentFrameIndex < GetFramesInFlight(sync)
        /\ sync.mCurrentFrameIndex + 1 \in DOMAIN sync.mFrames

\* An initialized synchronizer of three slots was initialized again with one slot:
\* the fifteen objects of the first three slots are still live beside the new five.
C33_Witness ==
    /\ ret.op = "Initialize" /\ ret.ok /\ ret.n = 1
    /\ IsInitialized(sync)
    /\ GetFramesInFlight(sync) = 1
    /\ Cardinality(dev.live) = 20
    /\ Leaked # {}
    /\ sync.mCurrentFrameIndex = 0

====
